---- MODULE Spec2Model ----
(***************************************************************************)
(* Model of the log-retrieval layer of DockerDiscordControl:               *)
(*   services/web/container_log_service.py  (ContainerLogService)          *)
(*   app/blueprints/log_routes.py           (the HTTP routes over it)      *)
(*                                                                         *)
(* A Python str is a sequence of one-character strings.  A fixed message   *)
(* (an error text, a "[Reading from ...]" tag) is one element of such a    *)
(* sequence: a chunk of text that holds no whitespace-only part and that   *)
(* no operation of the model looks into.                                   *)
(***************************************************************************)
EXTENDS Integers, Sequences, FiniteSets, TLC

VARIABLES files, engine, helper, store, call, first,
          now, disk, cache, thr,
          wall, demo,
          web,
          upd,
          app

\* the log service and its routes
logVars == <<files, engine, helper, store, call, first>>

\* the config cache: the clock, the config directory, the caches of the
\* processes and their threads
cacheVars == <<now, disk, cache, thr>>

\* the demo reset service: the wall clock and the service with its loops
demoVars == <<wall, demo>>

\* the decorators of the demo mode
webVars == <<web>>

\* the demo update messages service
updVars == <<upd>>

\* the registration of the background services
appVars == <<app>>

\* what the steps of the log service leave alone
nonLogVars == <<cacheVars, demoVars, webVars, updVars, appVars>>

\* what the steps of the config cache leave alone
nonCacheVars == <<logVars, demoVars, webVars, updVars, appVars>>

\* what the steps of the demo reset service leave alone, the config cache
\* apart
nonDemoVars == <<logVars, webVars, updVars, appVars>>

\* what the decorated endpoints leave alone
nonWebVars == <<logVars, cacheVars, demoVars, updVars, appVars>>

\* what the demo update messages service leaves alone
nonUpdVars == <<logVars, cacheVars, demoVars, webVars, appVars>>

\* what the registration and the teardown hook leave alone, the demo reset
\* service and the config cache apart
nonDemoAppVars == <<logVars, webVars, updVars>>

vars == <<logVars, cacheVars, demoVars, webVars, updVars, appVars>>

(***************************************************************************)
(* Bounds of the model.                                                    *)
(***************************************************************************)
\* the largest max_lines / limit a request of the model asks for
MaxLinesArg == 2
\* the largest number of log files that exist at the same time
MaxFiles == 2
\* the largest number of lines of a container log stream that is filtered
MaxStreamLines == 3
\* the largest number of lines of a log file that grows line by line
MaxTailLines == 3
\* the last tick of the clock that stamps the files of the config directory
MaxClock == 1
\* the number of times the configuration on disk is rewritten
MaxVersion == 1

(***************************************************************************)
(* Python str and list operations, as the code uses them.                  *)
(***************************************************************************)
NL == "\n"

\* str.strip() and str.isspace(): the characters Python treats as whitespace
Whitespace == {" ", NL, "\t", "\r"}

Max(a, b) == IF a >= b THEN a ELSE b

Min(a, b) == IF a <= b THEN a ELSE b

\* seq[start:] for start of either sign (Python slice semantics)
PySliceFrom(seq, start) ==
    LET n == Len(seq)
        s == IF start < 0 THEN Max(n + start, 0) ELSE Min(start, n)
    IN  SubSeq(seq, s + 1, n)

\* ''.join(parts)
RECURSIVE Concat(_)
Concat(parts) ==
    IF parts = <<>> THEN <<>> ELSE Head(parts) \o Concat(Tail(parts))

\* f.readlines(): the lines of a text, each keeping its terminating "\n"
RECURSIVE ReadLinesFrom(_, _)
ReadLinesFrom(s, cur) ==
    IF s = <<>> THEN (IF cur = <<>> THEN <<>> ELSE <<cur>>)
    ELSE IF Head(s) = NL THEN <<Append(cur, NL)>> \o ReadLinesFrom(Tail(s), <<>>)
    ELSE ReadLinesFrom(Tail(s), Append(cur, Head(s)))

ReadLines(s) == ReadLinesFrom(s, <<>>)

\* s.split('\n'): the pieces between newlines; always at least one piece
RECURSIVE SplitFrom(_, _)
SplitFrom(s, cur) ==
    IF s = <<>> THEN <<cur>>
    ELSE IF Head(s) = NL THEN <<cur>> \o SplitFrom(Tail(s), <<>>)
    ELSE SplitFrom(Tail(s), Append(cur, Head(s)))

SplitNL(s) == SplitFrom(s, <<>>)

\* '\n'.join(lines)
RECURSIVE JoinNL(_)
JoinNL(lines) ==
    IF lines = <<>> THEN <<>>
    ELSE IF Len(lines) = 1 THEN Head(lines)
    ELSE Head(lines) \o <<NL>> \o JoinNL(Tail(lines))

\* s.strip(): leading and trailing whitespace removed
RECURSIVE LStrip(_)
LStrip(s) ==
    IF s # <<>> /\ Head(s) \in Whitespace THEN LStrip(Tail(s)) ELSE s

RECURSIVE RStrip(_)
RStrip(s) ==
    IF s # <<>> /\ s[Len(s)] \in Whitespace THEN RStrip(SubSeq(s, 1, Len(s) - 1)) ELSE s

Strip(s) == RStrip(LStrip(s))

(***************************************************************************)
(* Optional[str]: None, or a str.                                          *)
(***************************************************************************)
None == [none |-> TRUE, s |-> <<>>]

Some(s) == [none |-> FALSE, s |-> s]

\* `if file_content and file_content.strip()`
Truthy(opt) == ~opt.none /\ opt.s # <<>>

NonBlank(opt) == Truthy(opt) /\ Strip(opt.s) # <<>>

(***************************************************************************)
(* ContainerLogService.__init__: the own container name and the log file   *)
(* paths of each category, in the insertion order of the log_paths dict.   *)
(***************************************************************************)
\* os.environ.get('DDC_OWN_CONTAINER_NAME', 'ddc')
default_container == <<"d", "d", "c">>

BotPaths == <<"/app/logs/bot.log", "/Volumes/appdata/dockerdiscordcontrol/logs/bot.log">>

DiscordPaths == <<"/app/logs/discord.log", "/Volumes/appdata/dockerdiscordcontrol/logs/discord.log">>

WebuiPaths == <<"/app/logs/webui_error.log", "/Volumes/appdata/dockerdiscordcontrol/logs/webui_error.log">>

ApplicationPaths == <<"/app/logs/supervisord.log", "/Volumes/appdata/dockerdiscordcontrol/logs/supervisord.log">>

ContainerPaths == <<"/app/logs/supervisord.log", "/var/log/supervisor/supervisord.log">>

\* self.log_paths.items()
log_paths ==
    << [log_type |-> "bot", paths |-> BotPaths],
       [log_type |-> "discord", paths |-> DiscordPaths],
       [log_type |-> "webui", paths |-> WebuiPaths],
       [log_type |-> "application", paths |-> ApplicationPaths],
       [log_type |-> "container", paths |-> ContainerPaths] >>

Range(seq) == {seq[i] : i \in 1..Len(seq)}

Paths == UNION {Range(log_paths[i].paths) : i \in 1..Len(log_paths)}

\* `for log_type, paths in self.log_paths.items(): for log_path in paths:`
\* the (log_type, log_path) pairs in the order the nested loops visit them
RECURSIVE AllLogPathsFrom(_)
AllLogPathsFrom(i) ==
    IF i > Len(log_paths) THEN <<>>
    ELSE [k \in 1..Len(log_paths[i].paths) |->
            [log_type |-> log_paths[i].log_type, path |-> log_paths[i].paths[k]]]
         \o AllLogPathsFrom(i + 1)

AllLogPaths == AllLogPathsFrom(1)

\* `for log_path in self.log_paths.get('container', [])`
OwnLogPaths ==
    [k \in 1..Len(ContainerPaths) |-> [log_type |-> "container", path |-> ContainerPaths[k]]]

(***************************************************************************)
(* The filesystem: each path is absent, present but unreadable (open()     *)
(* raises PermissionError/OSError), or a text file.                        *)
(***************************************************************************)
Absent == [kind |-> "absent", text |-> <<>>]

Unreadable == [kind |-> "unreadable", text |-> <<>>]

TextFile(t) == [kind |-> "text", text |-> t]

\* the texts a log file of the model holds: a file whose last line is
\* blank, and a file of two non-blank lines
FileTexts ==
    { <<"x", NL, " ", NL>>,
      <<"y", NL, "z", NL>> }

FileStates == {Unreadable} \cup {TextFile(t) : t \in FileTexts}

\* os.path.exists(path)
Exists(fs, path) == fs[path].kind # "absent"

\* _read_log_file without its line limit: the whole file
ReadLogFileWhole(fs, file_path, max_lines) ==
    IF fs[file_path].kind # "text" THEN None
    ELSE Some(Concat(ReadLines(fs[file_path].text)))

\* _read_log_file keeping the first max_lines lines, not the last
ReadLogFileHead(fs, file_path, max_lines) ==
    IF fs[file_path].kind # "text" THEN None
    ELSE LET lines == ReadLines(fs[file_path].text)
         IN  Some(Concat(SubSeq(lines, 1, Min(max_lines, Len(lines)))))

\* ContainerLogService._read_log_file
ReadLogFile(fs, file_path, max_lines) ==
    IF ~Exists(fs, file_path) THEN None
    ELSE IF fs[file_path].kind = "unreadable" THEN None
    ELSE LET lines == ReadLines(fs[file_path].text)
             recent_lines == IF Len(lines) > max_lines
                             THEN PySliceFrom(lines, 0 - max_lines)
                             ELSE lines
         IN  Some(Concat(recent_lines))

\* One of the service's scans of a list of (log_type, path) pairs:
\*   if os.path.exists(log_path):
\*       file_content = self._read_log_file(log_path, max_lines)
\*       if file_content and file_content.strip(): return ...
\* The result names the first pair that satisfies the scan (hit = 0: none)
\* and the files opened on the way.
RECURSIVE ScanFrom(_, _, _, _)
ScanFrom(fs, pairs, max_lines, i) ==
    IF i > Len(pairs) THEN [hit |-> 0, content |-> <<>>, io |-> <<>>]
    ELSE IF ~Exists(fs, pairs[i].path) THEN ScanFrom(fs, pairs, max_lines, i + 1)
    ELSE LET file_content == ReadLogFile(fs, pairs[i].path, max_lines)
             ev == [op |-> "read", target |-> pairs[i].path]
         IN  IF NonBlank(file_content)
             THEN [hit |-> i, content |-> file_content.s, io |-> <<ev>>]
             ELSE LET rest == ScanFrom(fs, pairs, max_lines, i + 1)
                  IN  [rest EXCEPT !.io = <<ev>> \o @]

Scan(fs, pairs, max_lines) == ScanFrom(fs, pairs, max_lines, 1)

(***************************************************************************)
(* The container engine, as the docker SDK shows it to the service.        *)
(*   module  : `import docker` succeeds                                    *)
(*   daemon  : "up", or the class of failure of every API call             *)
(*             ("APIError": docker.errors.APIError; "transport": an        *)
(*             exception that is neither NotFound nor APIError, such as    *)
(*             requests' ConnectionError or docker's DockerException)      *)
(*   running : whether the containers of KnownContainers exist             *)
(*   stream  : the combined stdout/stderr text of an existing container    *)
(*   loop    : an asyncio event loop is running in the calling thread      *)
(*   async   : what the Docker Client Service path does: "noclient" (the   *)
(*             client pool cannot be imported), "ok", "NotFound",          *)
(*             "APIError", or the class of another exception it raises     *)
(***************************************************************************)
OtherContainer == <<"a">>

KnownContainers == {default_container, OtherContainer}

\* container.logs(tail=n, stdout=True, stderr=True).decode('utf-8', errors='replace')
EngineTail(stream, n) ==
    LET lines == ReadLines(stream)
    IN  Concat(IF n >= Len(lines) THEN lines ELSE SubSeq(lines, Len(lines) - n + 1, Len(lines)))

\* docker.from_env().containers.get(name).logs(...): the text, or the
\* class of the exception raised
EngineQuery(e, container_name, max_lines) ==
    IF e.daemon = "APIError" THEN [exc |-> "APIError", val |-> None]
    ELSE IF e.daemon = "transport" THEN [exc |-> "ConnectionError", val |-> None]
    ELSE IF ~(e.running /\ container_name \in KnownContainers)
         THEN [exc |-> "NotFound", val |-> None]
    ELSE [exc |-> "", val |-> Some(EngineTail(e.stream, max_lines))]

Return(v) == [exc |-> "", val |-> v]

Raise(cls) == [exc |-> cls, val |-> None]

\* ContainerLogService._get_container_logs_sync.  When `import docker`
\* fails, `docker` is an unbound local of the function, and evaluating
\* `except docker.errors.NotFound:` raises UnboundLocalError.
GetContainerLogsSync(e, container_name, max_lines) ==
    IF ~e.module THEN Raise("UnboundLocalError")
    ELSE LET r == EngineQuery(e, container_name, max_lines)
         IN  IF r.exc = "" THEN Return(r.val)
             ELSE IF r.exc = "NotFound" THEN Return(None)
             ELSE IF r.exc = "APIError" THEN Return(None)
             ELSE Return(None)

\* ContainerLogService._fetch_container_logs_async: NotFound gives None,
\* APIError becomes RuntimeError, every other exception leaves as it is
\* (the listed classes are logged and re-raised, the others are not caught)
FetchContainerLogsAsync(e, container_name, max_lines) ==
    IF ~e.module THEN Raise("UnboundLocalError")
    ELSE IF e.async = "ok" THEN Return(Some(EngineTail(e.stream, max_lines)))
    ELSE IF e.async = "NotFound" THEN Return(None)
    ELSE IF e.async = "APIError" THEN Raise("RuntimeError")
    ELSE Raise(e.async)

\* the classes _get_container_logs_service_first catches
ServiceFirstCaught == {"AttributeError", "TypeError", "RuntimeError"}

\* ContainerLogService._get_container_logs_service_first (with
\* _get_docker_client_async, which returns None when the pool is missing)
GetContainerLogsServiceFirst(e, container_name, max_lines) ==
    IF e.async = "noclient" THEN Return(None)
    ELSE LET r == FetchContainerLogsAsync(e, container_name, max_lines)
         IN  IF r.exc \in ServiceFirstCaught THEN Return(None) ELSE r

\* get_container_logs, lines 123-145: the async last resort.
\*   loop running: executor.submit(lambda: asyncio.run(...)).result(); only
\*     RuntimeError is caught here, and the retry with asyncio.run() in a
\*     thread that runs a loop raises RuntimeError, which `except Exception`
\*     swallows;
\*   no loop: asyncio.run(...) under `except Exception`.
AsyncFallback(e, container_name, max_lines) ==
    LET r == GetContainerLogsServiceFirst(e, container_name, max_lines)
    IN  IF e.loop
        THEN IF r.exc = "RuntimeError" THEN Return(None) ELSE r
        ELSE IF r.exc = "" THEN r ELSE Return(None)

(***************************************************************************)
(* LogResult, and what a call gives its caller: a LogResult, or an         *)
(* exception of class exc that leaves the call.                            *)
(***************************************************************************)
Success(content) ==
    [exc |-> "", success |-> TRUE, content |-> Some(content), data |-> None,
     error |-> "", status_code |-> 200]

SuccessData(message) ==
    [exc |-> "", success |-> TRUE, content |-> None, data |-> Some(message),
     error |-> "", status_code |-> 200]

Failure(error, status_code) ==
    [exc |-> "", success |-> FALSE, content |-> None, data |-> None,
     error |-> error, status_code |-> status_code]

Raised(cls) ==
    [exc |-> cls, success |-> FALSE, content |-> None, data |-> None,
     error |-> "", status_code |-> 0]

NoCall == Raised("")

(***************************************************************************)
(* Container names.                                                        *)
(***************************************************************************)
\* the characters of [a-zA-Z0-9_.-] that the names of the model use
NameClass == {"a", "c", "d", "0", "_", ".", "-"}

\* utils.common_helpers.validate_container_name: alphanumeric, dot, dash
\* and underscore only
HelperValidate(container_name) ==
    /\ container_name # <<>>
    /\ \A i \in 1..Len(container_name) : container_name[i] \in NameClass

\* bool(re.match(r'^[a-zA-Z0-9_.-]+$', container_name)): `$` matches at the
\* end of the string and also just before a newline that ends the string
FallbackValidate(container_name) ==
    \E k \in 1..Len(container_name) :
        /\ \A i \in 1..k : container_name[i] \in NameClass
        /\ \/ k = Len(container_name)
           \/ k = Len(container_name) - 1 /\ container_name[Len(container_name)] = NL

\* ContainerLogService._validate_container_name; helperOK: the import of
\* utils.common_helpers succeeds
ValidateContainerName(helperOK, container_name) ==
    IF helperOK THEN HelperValidate(container_name)
    ELSE FallbackValidate(container_name)

(***************************************************************************)
(* ContainerLogService.get_container_logs                                  *)
(***************************************************************************)
FallbackTag(log_type) ==
    CASE log_type = "bot" -> "[Reading from bot log file]"
      [] log_type = "discord" -> "[Reading from discord log file]"
      [] log_type = "webui" -> "[Reading from webui log file]"
      [] log_type = "application" -> "[Reading from application log file]"
      [] log_type = "container" -> "[Reading from container log file]"

UnavailableTag(log_type) ==
    CASE log_type = "bot" -> "[Reading from bot log file - Docker API unavailable]"
      [] log_type = "discord" -> "[Reading from discord log file - Docker API unavailable]"
      [] log_type = "webui" -> "[Reading from webui log file - Docker API unavailable]"
      [] log_type = "application" -> "[Reading from application log file - Docker API unavailable]"
      [] log_type = "container" -> "[Reading from container log file - Docker API unavailable]"

EvSync == [op |-> "engine", target |-> "sync"]

EvAsync == [op |-> "engine", target |-> "async"]

\* the classes the `except` of get_container_logs catches (line 168)
OuterCaught == {"ImportError", "AttributeError", "TypeError", "ValueError", "RuntimeError"}

\* lines 168-184: the handler of an exception raised inside the try block
ContainerLogsExcept(fs, cls, max_lines) ==
    IF cls \notin OuterCaught THEN [out |-> Raised(cls), io |-> <<>>]
    ELSE LET sc == Scan(fs, AllLogPaths, max_lines)
         IN  IF sc.hit # 0
             THEN [out |-> Success(<<UnavailableTag(AllLogPaths[sc.hit].log_type), NL, NL>>
                                   \o sc.content),
                   io |-> sc.io]
             ELSE [out |-> Failure("An unexpected error occurred", 500), io |-> sc.io]

\* the end of get_container_logs answering 500 where the code answers 404
ContainerLogsFinishServerError(fs, logs_content, max_lines) ==
    IF logs_content.none
    THEN LET sc == Scan(fs, AllLogPaths, max_lines)
         IN  IF sc.hit # 0
             THEN [out |-> Success(<<FallbackTag(AllLogPaths[sc.hit].log_type), NL, NL>>
                                   \o sc.content),
                   io |-> sc.io]
             ELSE [out |-> Failure("An unexpected error occurred", 500), io |-> sc.io]
    ELSE [out |-> Success(logs_content.s), io |-> <<>>]

\* lines 147-166: after the engine has answered logs_content
ContainerLogsFinish(fs, logs_content, max_lines) ==
    IF logs_content.none
    THEN LET sc == Scan(fs, AllLogPaths, max_lines)
         IN  IF sc.hit # 0
             THEN [out |-> Success(<<FallbackTag(AllLogPaths[sc.hit].log_type), NL, NL>>
                                   \o sc.content),
                   io |-> sc.io]
             ELSE [out |-> Failure("Container not found and no log files available", 404),
                   io |-> sc.io]
    ELSE [out |-> Success(logs_content.s), io |-> <<>>]

\* lines 119-166: the engine steps
ContainerLogsEngine(fs, e, container_name, max_lines) ==
    LET sync == GetContainerLogsSync(e, container_name, max_lines)
    IN  IF sync.exc # ""
        THEN LET h == ContainerLogsExcept(fs, sync.exc, max_lines)
             IN  [h EXCEPT !.io = <<EvSync>> \o @]
        ELSE IF ~sync.val.none
        THEN LET f == ContainerLogsFinish(fs, sync.val, max_lines)
             IN  [f EXCEPT !.io = <<EvSync>> \o @]
        ELSE LET asyn == AsyncFallback(e, container_name, max_lines)
             IN  IF asyn.exc # ""
                 THEN LET h == ContainerLogsExcept(fs, asyn.exc, max_lines)
                      IN  [h EXCEPT !.io = <<EvSync, EvAsync>> \o @]
                 ELSE LET f == ContainerLogsFinish(fs, asyn.val, max_lines)
                      IN  [f EXCEPT !.io = <<EvSync, EvAsync>> \o @]

\* the whole of get_container_logs: what it returns or raises, and the file
\* reads and engine queries it performs, in order
GetContainerLogsCall(fs, e, helperOK, container_name, max_lines) ==
    IF ~ValidateContainerName(helperOK, container_name)
    THEN [out |-> Failure("Invalid container name", 400), io |-> <<>>]
    ELSE LET own == IF container_name = default_container
                    THEN Scan(fs, OwnLogPaths, max_lines)
                    ELSE [hit |-> 0, content |-> <<>>, io |-> <<>>]
         IN  IF own.hit # 0
             THEN [out |-> Success(own.content), io |-> own.io]
             ELSE LET r == ContainerLogsEngine(fs, e, container_name, max_lines)
                  IN  [r EXCEPT !.io = own.io \o @]

(***************************************************************************)
(* app/blueprints/log_routes.py: the route /container_logs/<name>.         *)
(***************************************************************************)
\* max_lines of the route's request, and the default of the simple readers
RouteMaxLines == 500

\* the paths _simple_read_logs tries, in order
SimpleLogPaths ==
    << "/app/logs/supervisord.log", "/var/log/supervisor/supervisord.log",
       "/app/logs/bot.log", "/app/logs/discord.log" >>

\* _simple_read_logs: the tail of the first path that exists and can be
\* read, whatever it holds (an empty file gives ''); an exception moves on
RECURSIVE SimpleReadLogsFrom(_, _, _)
SimpleReadLogsFrom(fs, max_lines, i) ==
    IF i > Len(SimpleLogPaths) THEN None
    ELSE IF fs[SimpleLogPaths[i]].kind = "text"
    THEN Some(Concat(PySliceFrom(ReadLines(fs[SimpleLogPaths[i]].text), 0 - max_lines)))
    ELSE SimpleReadLogsFrom(fs, max_lines, i + 1)

SimpleReadLogs(fs, max_lines) == SimpleReadLogsFrom(fs, max_lines, 1)

\* _simple_docker_logs: every exception, a failing import included, gives None
SimpleDockerLogs(e, container_name, max_lines) ==
    IF ~e.module THEN None
    ELSE LET r == EngineQuery(e, container_name, max_lines)
         IN  IF r.exc = "" THEN r.val ELSE None

\* `_simple_docker_logs(container_name) or _simple_read_logs()`
SimpleFallback(fs, e, container_name) ==
    LET d == SimpleDockerLogs(e, container_name, RouteMaxLines)
    IN  IF Truthy(d) THEN d ELSE SimpleReadLogs(fs, RouteMaxLines)

Http(status, body) == [status |-> status, body |-> body]

\* the classes the two except clauses of the route catch
RouteServiceErrors == {"ImportError", "AttributeError", "RuntimeError"}

RouteDataErrors == {"ValueError", "TypeError", "KeyError"}

\* Flask's answer to an exception that leaves a view function
Unhandled == Http(500, Some(<<"Internal Server Error">>))

\* the view get_container_logs(container_name), given what the service
\* returned or raised
RouteContainerLogsAnswer(fs, e, svc, container_name) ==
    IF svc.exc = "" /\ svc.success THEN Http(200, svc.content)
    ELSE IF svc.exc # "" /\ svc.exc \notin RouteServiceErrors \cup RouteDataErrors
    THEN Unhandled
    ELSE LET logs == SimpleFallback(fs, e, container_name)
             tag == IF svc.exc = "" THEN "[Fallback mode]"
                    ELSE IF svc.exc \in RouteServiceErrors
                    THEN "[Fallback mode - service error]"
                    ELSE "[Fallback mode - data error]"
         IN  IF Truthy(logs) THEN Http(200, Some(<<tag, NL>> \o logs.s))
             ELSE IF svc.exc = ""
             THEN Http(svc.status_code, Some(<<"Failed to fetch container logs: ", svc.error>>))
             ELSE IF svc.exc \in RouteServiceErrors
             THEN Http(500, Some(<<"Service error: ", svc.exc>>))
             ELSE Http(500, Some(<<"Data error: ", svc.exc>>))

(***************************************************************************)
(* get_filtered_logs: the category's files, then the own container's log   *)
(* filtered by the category's keywords.                                    *)
(***************************************************************************)
\* the filter_patterns of _get_bot_logs, _get_discord_logs, _get_webui_logs
\* and _get_application_logs
BotPatterns ==
    << <<"b", "o", "t", ".", "p", "y">>,
       <<"c", "o", "g">>,
       <<"d", "i", "s", "c", "o", "r", "d", ".", "p", "y">>,
       <<"d", "i", "s", "c", "o", "r", "d", " ", "b", "o", "t">>,
       <<"c", "o", "m", "m", "a", "n", "d">>,
       <<"s", "l", "a", "s", "h">>,
       <<"c", "a", "c", "h", "e">>,
       <<"c", "o", "n", "t", "a", "i", "n", "e", "r">>,
       <<"u", "p", "d", "a", "t", "e">> >>

DiscordPatterns ==
    << <<"d", "i", "s", "c", "o", "r", "d">>,
       <<"g", "u", "i", "l", "d">>,
       <<"c", "h", "a", "n", "n", "e", "l">>,
       <<"m", "e", "m", "b", "e", "r">>,
       <<"m", "e", "s", "s", "a", "g", "e">>,
       <<"v", "o", "i", "c", "e">>,
       <<"w", "e", "b", "s", "o", "c", "k", "e", "t">> >>

WebuiPatterns ==
    << <<"f", "l", "a", "s", "k">>,
       <<"F", "l", "a", "s", "k">>,
       <<"g", "u", "n", "i", "c", "o", "r", "n">>,
       <<"G", "u", "n", "i", "c", "o", "r", "n">>,
       <<"G", "E", "T", " ", "/">>,
       <<"P", "O", "S", "T", " ", "/">>,
       <<"H", "T", "T", "P">>,
       <<"1", "2", "7", ".", "0", ".", "0", ".", "1">>,
       <<"0", ".", "0", ".", "0", ".", "0", ":", "5", "0", "0", "0">>,
       <<"w", "e", "r", "k", "z", "e", "u", "g">>,
       <<"j", "i", "n", "j", "a", "2">> >>

ApplicationPatterns ==
    << <<"E", "R", "R", "O", "R">>,
       <<"W", "A", "R", "N", "I", "N", "G">>,
       <<"I", "N", "F", "O">>,
       <<"D", "E", "B", "U", "G">>,
       <<"S", "t", "a", "r", "t", "i", "n", "g">>,
       <<"S", "t", "o", "p", "p", "i", "n", "g">>,
       <<"I", "n", "i", "t", "i", "a", "l", "i", "z", "i", "n", "g">>,
       <<"C", "o", "n", "f", "i", "g">>,
       <<"D", "a", "t", "a", "b", "a", "s", "e">>,
       <<"S", "c", "h", "e", "d", "u", "l", "e", "r">> >>

\* str.lower(), character by character
LowerChar(c) ==
    CASE c = "A" -> "a"
      [] c = "B" -> "b"
      [] c = "C" -> "c"
      [] c = "D" -> "d"
      [] c = "E" -> "e"
      [] c = "F" -> "f"
      [] c = "G" -> "g"
      [] c = "H" -> "h"
      [] c = "I" -> "i"
      [] c = "J" -> "j"
      [] c = "K" -> "k"
      [] c = "L" -> "l"
      [] c = "M" -> "m"
      [] c = "N" -> "n"
      [] c = "O" -> "o"
      [] c = "P" -> "p"
      [] c = "Q" -> "q"
      [] c = "R" -> "r"
      [] c = "S" -> "s"
      [] c = "T" -> "t"
      [] c = "U" -> "u"
      [] c = "V" -> "v"
      [] c = "W" -> "w"
      [] c = "X" -> "x"
      [] c = "Y" -> "y"
      [] c = "Z" -> "z"
      [] OTHER -> c

Lower(str) == [i \in 1..Len(str) |-> LowerChar(str[i])]

\* `pattern in line`: pattern is a substring of line
Contains(pattern, line) ==
    \E i \in 0..(Len(line) - Len(pattern)) :
        SubSeq(line, i + 1, i + Len(pattern)) = pattern

\* any(pattern in line.lower() for pattern in [p.lower() for p in filter_patterns])
LineMatches(line, filter_patterns) ==
    \E k \in 1..Len(filter_patterns) : Contains(Lower(filter_patterns[k]), Lower(line))

\* the loop of lines 456-459: the lines that match, in order
RECURSIVE FilterLines(_, _)
FilterLines(lines, filter_patterns) ==
    IF lines = <<>> THEN <<>>
    ELSE IF LineMatches(Head(lines), filter_patterns)
    THEN <<Head(lines)>> \o FilterLines(Tail(lines), filter_patterns)
    ELSE FilterLines(Tail(lines), filter_patterns)

\* lines 443-450 of _get_filtered_container_logs: the async fallback.
\*   loop running: run_coroutine_threadsafe is handed a Task, not a
\*     coroutine, and raises TypeError;
\*   no loop: asyncio.run(...) under `except Exception: pass`.
FilteredAsyncFallback(e, max_lines) ==
    IF e.loop THEN Raise("TypeError")
    ELSE LET r == GetContainerLogsServiceFirst(e, default_container, max_lines)
         IN  IF r.exc = "" THEN r ELSE Return(None)

\* the classes the `except` of _get_filtered_container_logs catches
FilteredCaught == {"AttributeError", "TypeError", "RuntimeError", "ValueError"}

\* the filter keeping the first max_lines matching lines, not the last
FilterStreamHead(logs_str, max_lines, filter_patterns, no_logs_message) ==
    IF logs_str.none THEN Success(<<no_logs_message>>)
    ELSE LET filtered_lines == FilterLines(SplitNL(logs_str.s), filter_patterns)
         IN  IF filtered_lines # <<>>
             THEN Success(JoinNL(SubSeq(filtered_lines, 1, Min(max_lines, Len(filtered_lines)))))
             ELSE Success(<<no_logs_message>>)

\* lines 452-464: the filter over the text the engine gave
FilterStream(logs_str, max_lines, filter_patterns, no_logs_message) ==
    IF logs_str.none THEN Success(<<no_logs_message>>)
    ELSE LET filtered_lines == FilterLines(SplitNL(logs_str.s), filter_patterns)
         IN  IF filtered_lines # <<>>
             THEN Success(JoinNL(PySliceFrom(filtered_lines, 0 - max_lines)))
             ELSE Success(<<no_logs_message>>)

\* ContainerLogService._get_filtered_container_logs
FilteredContainerLogs(e, max_lines, filter_patterns, no_logs_message) ==
    LET sync == GetContainerLogsSync(e, default_container, max_lines * 2)
        got == IF sync.exc # "" \/ ~sync.val.none THEN sync
               ELSE FilteredAsyncFallback(e, max_lines * 2)
    IN  IF got.exc \in FilteredCaught THEN Success(<<no_logs_message>>)
        ELSE IF got.exc # "" THEN Raised(got.exc)
        ELSE FilterStream(got.val, max_lines, filter_patterns, no_logs_message)

\* the engine queries of _get_filtered_container_logs
FilteredIo(e, max_lines) ==
    LET sync == GetContainerLogsSync(e, default_container, max_lines * 2)
    IN  IF sync.exc # "" \/ ~sync.val.none THEN <<EvSync>> ELSE <<EvSync, EvAsync>>

\* LogType.BOT, DISCORD, WEBUI, APPLICATION
FilteredTypes == {"bot", "discord", "webui", "application"}

CategoryPaths(log_type) ==
    CASE log_type = "bot" -> BotPaths
      [] log_type = "discord" -> DiscordPaths
      [] log_type = "webui" -> WebuiPaths
      [] log_type = "application" -> ApplicationPaths

CategoryPatterns(log_type) ==
    CASE log_type = "bot" -> BotPatterns
      [] log_type = "discord" -> DiscordPatterns
      [] log_type = "webui" -> WebuiPatterns
      [] log_type = "application" -> ApplicationPatterns

NoLogsMessage(log_type) ==
    CASE log_type = "bot" -> "No bot logs found"
      [] log_type = "discord" -> "No Discord logs found"
      [] log_type = "webui" -> "No Web UI logs found"
      [] log_type = "application" -> "No application logs found"

\* _get_bot_logs, _get_discord_logs, _get_webui_logs, _get_application_logs
\* the category's scan with its paths tried from the last to the first
CategoryLogsLastPathFirst(fs, e, log_type, max_lines) ==
    LET n == Len(CategoryPaths(log_type))
        pairs == [k \in 1..n |->
                    [log_type |-> log_type, path |-> CategoryPaths(log_type)[n + 1 - k]]]
        sc == Scan(fs, pairs, max_lines)
    IN  IF sc.hit # 0 THEN [out |-> Success(sc.content), io |-> sc.io]
        ELSE [out |-> FilteredContainerLogs(e, max_lines, CategoryPatterns(log_type),
                                            NoLogsMessage(log_type)),
              io |-> sc.io \o FilteredIo(e, max_lines)]

\* _get_bot_logs, _get_discord_logs, _get_webui_logs, _get_application_logs
CategoryLogs(fs, e, log_type, max_lines) ==
    LET pairs == [k \in 1..Len(CategoryPaths(log_type)) |->
                    [log_type |-> log_type, path |-> CategoryPaths(log_type)[k]]]
        sc == Scan(fs, pairs, max_lines)
    IN  IF sc.hit # 0 THEN [out |-> Success(sc.content), io |-> sc.io]
        ELSE [out |-> FilteredContainerLogs(e, max_lines, CategoryPatterns(log_type),
                                            NoLogsMessage(log_type)),
              io |-> sc.io \o FilteredIo(e, max_lines)]

\* the classes the `except` of get_filtered_logs catches (line 212)
FilteredOuterCaught == {"AttributeError", "TypeError", "ValueError", "RuntimeError"}

\* ContainerLogService.get_filtered_logs
GetFilteredLogsCall(fs, e, log_type, max_lines) ==
    IF log_type \notin FilteredTypes
    THEN [out |-> Failure("Unsupported log type", 400), io |-> <<>>]
    ELSE LET r == CategoryLogs(fs, e, log_type, max_lines)
         IN  IF r.out.exc \in FilteredOuterCaught
             THEN [r EXCEPT !.out = Failure("Error fetching logs", 500)]
             ELSE r

(***************************************************************************)
(* Action logs: get_action_logs and the routes /action_logs and            *)
(* /action_logs_json.  The store (services.infrastructure.action_logger)   *)
(* answers with its text, or raises an exception of class store.mode.      *)
(***************************************************************************)
StoreOK(text) == [mode |-> "ok", text |-> text]

StoreFails(cls) == [mode |-> cls, text |-> <<>>]

\* the exception classes a failing store raises
StoreErrors ==
    {"ImportError", "AttributeError", "OSError", "TypeError", "ValueError", "RuntimeError"}

\* the texts the store holds: no entry, two entries
StoreTexts == { <<>>, <<"e", "1", NL, "e", "2", NL>> }

\* action_logger.get_action_logs_text(limit) / get_action_logs_json(limit):
\* up to `limit` entries, the most recent ones
StoreRead(st, limit) == EngineTail(st.text, limit)

\* ContainerLogService._get_action_logs_text: an exception of the store is
\* logged (the listed classes) and leaves the method
GetActionLogsText(st, limit) ==
    IF st.mode # "ok" THEN Raised(st.mode)
    ELSE IF StoreRead(st, limit) # <<>> THEN Success(StoreRead(st, limit))
    ELSE Success(<<"No action logs available">>)

\* ContainerLogService._get_action_logs_json
GetActionLogsJson(st, limit) ==
    IF st.mode # "ok" THEN Raised(st.mode)
    ELSE SuccessData(<<"logs">> \o StoreRead(st, limit))

\* the classes the `except` of get_action_logs catches (line 237)
ActionCaught == {"AttributeError", "TypeError", "ValueError", "RuntimeError"}

\* ContainerLogService.get_action_logs
GetActionLogsCall(st, format_type, limit) ==
    LET r == IF format_type = "json" THEN GetActionLogsJson(st, limit)
             ELSE GetActionLogsText(st, limit)
    IN  IF r.exc \in ActionCaught THEN Failure("Error fetching action logs", 500) ELSE r

\* the view get_action_logs(): `except Exception` and a failed result both
\* fall through to the placeholder answer
RouteActionLogsAnswer(svc) ==
    IF svc.exc = "" /\ svc.success THEN Http(200, svc.content)
    ELSE Http(200, Some(<<"No action logs available">>))

\* the view get_action_logs_json()
RouteActionLogsJsonAnswer(svc) ==
    IF svc.exc = "" /\ svc.success THEN Http(200, svc.data)
    ELSE IF svc.exc = "" THEN Http(svc.status_code, Some(<<"Failed to fetch action logs">>))
    ELSE IF svc.exc \in RouteServiceErrors THEN Http(500, Some(<<"Service error occurred">>))
    ELSE IF svc.exc \in RouteDataErrors THEN Http(500, Some(<<"Data error occurred">>))
    ELSE Unhandled

(***************************************************************************)
(* clear_logs and the route POST /clear_logs.  A JSON value is a record    *)
(* of its type t and, for a string, its text v.                            *)
(***************************************************************************)
JStr(v) == [t |-> "str", v |-> v]

JInt == [t |-> "int", v |-> ""]

JNull == [t |-> "null", v |-> ""]

NoArg == [t |-> "", v |-> ""]

\* the values of log_type in the requests of the model
LogTypeValues == {JStr("container"), JStr("bot"), JStr(""), JInt, JNull}

\* str.capitalize() on the strings of the model
Capitalize(v) ==
    CASE v = "container" -> "Container"
      [] v = "bot" -> "Bot"
      [] OTHER -> v

\* ContainerLogService.clear_logs: `request.log_type.capitalize()` raises
\* AttributeError for a value that is not a str, and the except clause
\* turns it into a failure
ClearLogsCall(log_type) ==
    IF log_type.t = "str"
    THEN SuccessData(<<Capitalize(log_type.v), " logs cleared (Note: Docker container logs ",
                       "persist until container restart", ")">>)
    ELSE Failure("object has no attribute 'capitalize'", 500)

\* the JSON bodies of POST /clear_logs: null, an object without or with
\* log_type, a non-empty list
ClearBodies ==
    {[kind |-> "null", log_type |-> NoArg], [kind |-> "object", log_type |-> NoArg],
     [kind |-> "list", log_type |-> NoArg]}
    \cup {[kind |-> "object", log_type |-> v] : v \in LogTypeValues}

\* `request.json.get('log_type', 'container') if request.json else 'container'`;
\* a list has no .get: AttributeError
RouteLogType(body) ==
    IF body.kind = "null" THEN Return(JStr("container"))
    ELSE IF body.kind = "list" THEN [exc |-> "AttributeError", val |-> NoArg]
    ELSE IF body.log_type = NoArg THEN Return(JStr("container"))
    ELSE Return(body.log_type)

\* the view clear_logs(), given what the service returned
RouteClearLogsAnswer(svc) ==
    IF svc.success THEN Http(200, svc.data)
    ELSE Http(svc.status_code, Some(<<"Failed to clear logs">>))

(***************************************************************************)
(* State.                                                                  *)
(*   files  : the filesystem, path -> file state                           *)
(*   engine : the container engine and the async environment               *)
(*   helper : utils.common_helpers can be imported                         *)
(*   store  : the action-log store                                         *)
(*   call   : the request being answered, Idle between requests: its       *)
(*            inputs, what the service gave back (out), the file reads and *)
(*            engine queries of the service (io), and the HTTP answer of   *)
(*            the route, if the request came through one.  Requests are    *)
(*            answered one at a time and the environment changes between   *)
(*            them.                                                        *)
(***************************************************************************)
Idle ==
    [op |-> "none", container_name |-> <<>>, max_lines |-> 0, arg |-> NoArg,
     out |-> NoCall, io |-> <<>>, status |-> 0, body |-> None]

AllAbsent == [p \in Paths |-> Absent]

\* the texts a container's log stream holds: empty, and two lines
Streams == { <<>>, <<"l", "o", "g", NL, "e", "n", "d", NL>> }

Healthy(stream) ==
    [module |-> TRUE, daemon |-> "up", running |-> TRUE, stream |-> stream,
     loop |-> FALSE, async |-> "noclient"]

Failing(daemon, running, loop, async) ==
    [module |-> TRUE, daemon |-> daemon, running |-> running, stream |-> <<>>,
     loop |-> loop, async |-> async]

NoDockerModule ==
    [module |-> FALSE, daemon |-> "up", running |-> TRUE, stream |-> <<>>,
     loop |-> FALSE, async |-> "noclient"]

\* the engine conditions of the model: the engine answers, the container
\* does not exist, the API fails, the transport fails, no docker module
\* (the Docker Client Service, if there is one, sees the same condition)
EngineStates ==
    {Healthy(s) : s \in Streams}
    \cup { Failing("up", FALSE, FALSE, "noclient"),
           Failing("up", FALSE, FALSE, "NotFound"),
           Failing("APIError", TRUE, FALSE, "APIError"),
           Failing("transport", TRUE, FALSE, "noclient"),
           NoDockerModule }

\* the conditions under which the async last resort differs from the sync
\* call: the pooled client still answers, or raises, without or within a
\* running event loop
AsyncStates ==
    { [Failing("transport", TRUE, l, a) EXCEPT !.stream = s] :
        l \in BOOLEAN, a \in {"ok", "ConnectionError", "ValueError"}, s \in Streams }

(***************************************************************************)
(* services/config/config_cache_service.py: ConfigCacheService.            *)
(* Every process has one instance; the config directory is shared.         *)
(*   now   : the clock that stamps files, in ticks of its granularity       *)
(*   disk  : the config directory: its own mtime, the mtime of              *)
(*           .config_updated (NoFile: absent), the largest mtime of the     *)
(*           json files, and the version of the configuration they hold     *)
(*   cache : per process, _config_cache, _cache_timestamps, the holder of   *)
(*           _cache_lock (0: free), _token_cache, _token_cache_hash, and,   *)
(*           per key, whether .config_updated was touched after the key     *)
(*           was stored                                                     *)
(*   thr   : per thread, the statement it is at, its locals and, for a      *)
(*           get_cached_config, whether the key was in the cache and        *)
(*           .config_updated touched since when the call began              *)
(***************************************************************************)
Procs == {1, 2}

Threads == {1, 2, 3}

\* threads 1 and 2 run in process 1, thread 3 in process 2
ProcOf(t) == IF t = 3 THEN 2 ELSE 1

CacheKeys == {"config"}

\* a key that is not in a dict; a file that does not exist
NotCached == -1

NoFile == -1

\* Python's None as the value of _token_cache and _token_cache_hash
PyNone == <<"None">>

\* the locals of a thread that is not in a token operation
NoPair == [encrypted_token |-> <<>>, password_hash |-> <<>>]

\* the (encrypted_token, password_hash) pairs of the model
TokenPairs ==
    { [encrypted_token |-> <<"e", "1">>, password_hash |-> <<"h">>],
      [encrypted_token |-> <<"e", "2">>, password_hash |-> <<"h">>] }

\* hashlib.sha256(f"{encrypted_token}{password_hash}".encode()).hexdigest():
\* the digest stands for the concatenation it is computed from
TokenCacheKey(pair) == pair.encrypted_token \o pair.password_hash

\* the decrypted token a caller stores for a pair
DecryptedToken(pair) == <<"t">> \o pair.encrypted_token

FreshCache ==
    [config_cache |-> [k \in CacheKeys |-> NotCached],
     cache_timestamps |-> [k \in CacheKeys |-> NotCached],
     touched_since |-> [k \in CacheKeys |-> FALSE],
     lock |-> 0,
     token_cache |-> PyNone,
     token_cache_hash |-> PyNone]

NoRet == [none |-> TRUE, config |-> NotCached, touched |-> FALSE, token |-> PyNone]

IdleThread ==
    [pc |-> "idle", cache_key |-> "", config |-> 0, config_dir |-> FALSE,
     pair |-> NoPair, ret |-> NoRet]

CacheInit ==
    /\ now = 0
    /\ disk = [dir |-> 0, marker |-> NoFile, json |-> 0, version |-> 0]
    /\ cache = [p \in Procs |-> FreshCache]
    /\ thr = [t \in Threads |-> IdleThread]

\* the clock that stamps files moves on by one tick
Tick ==
    /\ now < MaxClock
    /\ now' = now + 1
    /\ UNCHANGED <<disk, cache, thr>>
    /\ UNCHANGED nonCacheVars

\* the environment: a process rewrites the configuration; a json file gets
\* a new mtime, and so does the directory when the file is replaced rather
\* than rewritten in place
WriteConfig ==
    /\ disk.version < MaxVersion
    /\ \E replaced \in BOOLEAN :
          disk' = [disk EXCEPT !.version = @ + 1, !.json = now,
                               !.dir = IF replaced THEN now ELSE @]
    /\ UNCHANGED <<now, cache, thr>>
    /\ UNCHANGED nonCacheVars

\* get_cached_config, line 55: `with self._cache_lock`; the call begins
GetCachedConfigLock ==
    /\ \E t \in Threads, k \in CacheKeys :
          /\ thr[t].pc = "idle"
          /\ cache[ProcOf(t)].lock = 0
          /\ cache' = [cache EXCEPT ![ProcOf(t)].lock = t]
          /\ thr' = [thr EXCEPT ![t] =
                [IdleThread EXCEPT !.pc = "get_cached_config",
                                   !.cache_key = k,
                                   !.ret.touched = cache[ProcOf(t)].touched_since[k]]]
    /\ UNCHANGED <<now, disk>>
    /\ UNCHANGED nonCacheVars

\* self._cache_timestamps.get(cache_key, 0)
TimestampOf(c, k) ==
    IF c.cache_timestamps[k] = NotCached THEN 0 ELSE c.cache_timestamps[k]

\* lines 57-62: the mtime of .config_updated, or the largest mtime of the
\* json files when it does not exist
CurrentTime(d) == IF d.marker # NoFile THEN d.marker ELSE d.json

\* lines 64-68: the cached config if its timestamp is not older than
\* current_time, None otherwise
Lookup(c, d, k) ==
    IF c.config_cache[k] # NotCached /\ TimestampOf(c, k) >= CurrentTime(d)
    THEN [NoRet EXCEPT !.none = FALSE, !.config = c.config_cache[k]]
    ELSE NoRet

\* get_cached_config, lines 57-68, and the release of the lock
GetCachedConfigCheck ==
    /\ \E t \in Threads :
          /\ thr[t].pc = "get_cached_config"
          /\ thr' = [thr EXCEPT ![t].pc = "returned",
                                ![t].ret = [Lookup(cache[ProcOf(t)], disk, thr[t].cache_key)
                                               EXCEPT !.touched = thr[t].ret.touched]]
          /\ cache' = [cache EXCEPT ![ProcOf(t)].lock = 0]
    /\ UNCHANGED <<now, disk>>
    /\ UNCHANGED nonCacheVars

\* the caller has its answer
ThreadReturns ==
    /\ \E t \in Threads :
          /\ thr[t].pc = "returned"
          /\ thr' = [thr EXCEPT ![t] = IdleThread]
    /\ UNCHANGED <<now, disk, cache>>
    /\ UNCHANGED nonCacheVars

\* set_cached_config, line 104: `with self._cache_lock`; the caller passes
\* the configuration it has read from the directory
SetCachedConfigLock ==
    /\ \E t \in Threads, k \in CacheKeys :
          /\ thr[t].pc = "idle"
          /\ cache[ProcOf(t)].lock = 0
          /\ cache' = [cache EXCEPT ![ProcOf(t)].lock = t]
          /\ thr' = [thr EXCEPT ![t] = [IdleThread EXCEPT !.pc = "set_cached_config",
                                                         !.cache_key = k,
                                                         !.config = disk.version]]
    /\ UNCHANGED <<now, disk>>
    /\ UNCHANGED nonCacheVars

\* set_cached_config, lines 105-107, and the release of the lock: the
\* timestamp of the entry is the mtime of the config directory
SetCachedConfigStore ==
    /\ \E t \in Threads :
          /\ thr[t].pc = "set_cached_config"
          /\ cache' = [cache EXCEPT
                ![ProcOf(t)].config_cache[thr[t].cache_key] = thr[t].config,
                ![ProcOf(t)].cache_timestamps[thr[t].cache_key] = disk.dir,
                ![ProcOf(t)].touched_since[thr[t].cache_key] = FALSE,
                ![ProcOf(t)].lock = 0]
          /\ thr' = [thr EXCEPT ![t] = IdleThread]
    /\ UNCHANGED <<now, disk>>
    /\ UNCHANGED nonCacheVars

\* invalidate_cache, line 111: `with self._cache_lock`; config_dir is given
\* or left None
InvalidateLock ==
    /\ \E t \in Threads, given \in BOOLEAN :
          /\ thr[t].pc = "idle"
          /\ cache[ProcOf(t)].lock = 0
          /\ cache' = [cache EXCEPT ![ProcOf(t)].lock = t]
          /\ thr' = [thr EXCEPT ![t] = [IdleThread EXCEPT !.pc = "invalidate_config",
                                                         !.config_dir = given]]
    /\ UNCHANGED <<now, disk>>
    /\ UNCHANGED nonCacheVars

\* invalidate_cache, lines 112-113
InvalidateClearConfig ==
    /\ \E t \in Threads :
          /\ thr[t].pc = "invalidate_config"
          /\ cache' = [cache EXCEPT
                ![ProcOf(t)].config_cache = [k \in CacheKeys |-> NotCached],
                ![ProcOf(t)].cache_timestamps = [k \in CacheKeys |-> NotCached],
                ![ProcOf(t)].touched_since = [k \in CacheKeys |-> FALSE]]
          /\ thr' = [thr EXCEPT ![t].pc = "invalidate_token"]
    /\ UNCHANGED <<now, disk>>
    /\ UNCHANGED nonCacheVars

\* invalidate_cache, line 114
InvalidateClearToken ==
    /\ \E t \in Threads :
          /\ thr[t].pc = "invalidate_token"
          /\ cache' = [cache EXCEPT ![ProcOf(t)].token_cache = PyNone]
          /\ thr' = [thr EXCEPT ![t].pc = "invalidate_hash"]
    /\ UNCHANGED <<now, disk>>
    /\ UNCHANGED nonCacheVars

\* invalidate_cache, line 115, and the release of the lock
InvalidateClearHash ==
    /\ \E t \in Threads :
          /\ thr[t].pc = "invalidate_hash"
          /\ cache' = [cache EXCEPT ![ProcOf(t)].token_cache_hash = PyNone,
                                    ![ProcOf(t)].lock = 0]
          /\ thr' = [thr EXCEPT ![t] = IF thr[t].config_dir
                                       THEN [thr[t] EXCEPT !.pc = "touch"]
                                       ELSE IdleThread]
    /\ UNCHANGED <<now, disk>>
    /\ UNCHANGED nonCacheVars

\* Path.touch() on .config_updated: its mtime becomes the current tick, and
\* so does the directory's when the file is created
Touched(d, tick) ==
    [d EXCEPT !.marker = tick, !.dir = IF d.marker = NoFile THEN tick ELSE @]

\* every entry stored so far, in every process, was stored before this touch
MarkTouched(cs) ==
    [p \in Procs |->
        [cs[p] EXCEPT !.touched_since =
            [k \in CacheKeys |-> cs[p].config_cache[k] # NotCached]]]

\* _touch_timestamp_file, lines 123-130: the touch, or an OSError that is
\* logged
TouchTimestampFile ==
    /\ \E t \in Threads, ok \in BOOLEAN :
          /\ thr[t].pc = "touch"
          /\ IF ok
             THEN disk' = Touched(disk, now) /\ cache' = MarkTouched(cache)
             ELSE UNCHANGED <<disk, cache>>
          /\ thr' = [thr EXCEPT ![t] = IdleThread]
    /\ UNCHANGED now
    /\ UNCHANGED nonCacheVars

\* get_cached_token, lines 143-145: `self._token_cache_hash == cache_key`
GetCachedTokenHash ==
    /\ \E t \in Threads, pair \in TokenPairs :
          /\ thr[t].pc = "idle"
          /\ thr' = [thr EXCEPT ![t] =
                [IdleThread EXCEPT
                    !.pair = pair,
                    !.pc = IF cache[ProcOf(t)].token_cache_hash = TokenCacheKey(pair)
                           THEN "get_token_truthy" ELSE "returned"]]
    /\ UNCHANGED <<now, disk, cache>>
    /\ UNCHANGED nonCacheVars

\* get_cached_token, line 145: `and self._token_cache`
GetCachedTokenTruthy ==
    /\ \E t \in Threads :
          /\ thr[t].pc = "get_token_truthy"
          /\ thr' = [thr EXCEPT ![t].pc =
                IF cache[ProcOf(t)].token_cache # PyNone
                THEN "get_token_return" ELSE "returned"]
    /\ UNCHANGED <<now, disk, cache>>
    /\ UNCHANGED nonCacheVars

\* get_cached_token, line 147: `return self._token_cache`
GetCachedTokenReturn ==
    /\ \E t \in Threads :
          /\ thr[t].pc = "get_token_return"
          /\ thr' = [thr EXCEPT ![t].pc = "returned",
                                ![t].ret = [NoRet EXCEPT
                                    !.none = cache[ProcOf(t)].token_cache = PyNone,
                                    !.token = cache[ProcOf(t)].token_cache]]
    /\ UNCHANGED <<now, disk, cache>>
    /\ UNCHANGED nonCacheVars

\* set_cached_token, line 161
SetCachedTokenValue ==
    /\ \E t \in Threads, pair \in TokenPairs :
          /\ thr[t].pc = "idle"
          /\ cache' = [cache EXCEPT ![ProcOf(t)].token_cache = DecryptedToken(pair)]
          /\ thr' = [thr EXCEPT ![t] = [IdleThread EXCEPT !.pc = "set_token_hash",
                                                         !.pair = pair]]
    /\ UNCHANGED <<now, disk>>
    /\ UNCHANGED nonCacheVars

\* set_cached_token, line 162
SetCachedTokenHash ==
    /\ \E t \in Threads :
          /\ thr[t].pc = "set_token_hash"
          /\ cache' = [cache EXCEPT ![ProcOf(t)].token_cache_hash = TokenCacheKey(thr[t].pair)]
          /\ thr' = [thr EXCEPT ![t] = IdleThread]
    /\ UNCHANGED <<now, disk>>
    /\ UNCHANGED nonCacheVars

\* clear_token_cache, line 167
ClearTokenCacheValue ==
    /\ \E t \in Threads :
          /\ thr[t].pc = "idle"
          /\ cache' = [cache EXCEPT ![ProcOf(t)].token_cache = PyNone]
          /\ thr' = [thr EXCEPT ![t] = [IdleThread EXCEPT !.pc = "clear_token_hash"]]
    /\ UNCHANGED <<now, disk>>
    /\ UNCHANGED nonCacheVars

\* clear_token_cache, line 168
ClearTokenCacheHash ==
    /\ \E t \in Threads :
          /\ thr[t].pc = "clear_token_hash"
          /\ cache' = [cache EXCEPT ![ProcOf(t)].token_cache_hash = PyNone]
          /\ thr' = [thr EXCEPT ![t] = IdleThread]
    /\ UNCHANGED <<now, disk>>
    /\ UNCHANGED nonCacheVars

(***************************************************************************)
(* services/demo/demo_reset_service.py: DemoResetService.                  *)
(*   wall : datetime.now(): the hour of the day and the half minute of the  *)
(*          hour, the two halves of minute 0 apart and minutes 1 to 59 as   *)
(*          one                                                             *)
(*   demo : DDC_MODE, the fields running and last_reset_hour, the threads   *)
(*          in _run_service, the demo_defaults directory, the API call      *)
(*          that has just returned, and, for the minute 0 the clock         *)
(*          entered last, whether the service has been running since and    *)
(*          how often its loops called _reset_to_defaults for it            *)
(***************************************************************************)
\* datetime.now().hour is in 0 .. 23
HoursPerDay == 24

\* time.sleep(30) at line 100: the halves of a minute between two samples
HalvesOfMinute == 2

\* RESET_HOUR_MINUTE, line 34
RESET_HOUR_MINUTE == 0

\* the part of the hour after minute 0
RestOfHour == HalvesOfMinute

\* now.minute of a wall clock value
MinuteOf(w) == IF w.half < HalvesOfMinute THEN 0 ELSE 1

\* values of DDC_MODE; "" is the variable not being set
Modes == {"demo", "production", ""}

\* is_demo_mode, lines 37-39, taking every set value for demo
IsDemoModeWhenSet(mode) == mode # ""

\* is_demo_mode, lines 37-39
IsDemoMode(mode) == mode = "demo"

\* threads that can be in _run_service at the same time
LoopIds == {1, 2}

NoLoop == [pc |-> "none", slept |-> 0, current_hour |-> 0]

NoDefaults == [exists |-> FALSE, version |-> 0, json |-> 0]

NoApi == [op |-> "none", ret |-> FALSE]

DemoInit ==
    /\ wall = [hour |-> 0, half |-> RestOfHour]
    /\ \E mode \in Modes :
          demo = [mode |-> mode, running |-> FALSE, last_reset_hour |-> -1,
                  loops |-> [l \in LoopIds |-> NoLoop],
                  defaults |-> NoDefaults, api |-> NoApi,
                  window |-> [live |-> FALSE, resets |-> 0]]

\* _save_current_as_defaults, lines 115-146: the config files are copied
\* with their mtimes; making demo_defaults changes the mtime of the config
\* directory
SavedDefaults(d) == [exists |-> TRUE, version |-> d.version, json |-> d.json]

SavedDisk(d, defaults, tick) ==
    IF defaults.exists THEN d ELSE [d EXCEPT !.dir = tick]

\* _reset_to_defaults, lines 148-183: nothing without demo_defaults;
\* otherwise the files are copied back with their mtimes, the directories
\* replaced, and .config_updated touched
ResetDisk(d, defaults, tick) ==
    IF ~defaults.exists
    THEN d
    ELSE Touched([d EXCEPT !.version = defaults.version,
                           !.json = defaults.json,
                           !.dir = tick], tick)

ResetCaches(cs, defaults) == IF defaults.exists THEN MarkTouched(cs) ELSE cs

\* no thread is inside an iteration of the loop and no call is returning:
\* an iteration and a call take less than half a minute
Quiet ==
    /\ demo.api = NoApi
    /\ \A l \in LoopIds : demo.loops[l].pc \in {"none", "sleep"}

\* the wall clock moves on by half a minute; time.sleep(30) has returned
\* before a second half minute has passed
WallTick ==
    /\ Quiet
    /\ \A l \in LoopIds : demo.loops[l].pc = "sleep" => demo.loops[l].slept <= 1
    /\ \E next_hour \in BOOLEAN :
          /\ next_hour => wall.half = RestOfHour
          /\ ~next_hour => (wall.half < RestOfHour \/ \E l \in LoopIds : demo.loops[l].pc = "sleep")
          /\ wall' = IF next_hour
                     THEN [hour |-> (wall.hour + 1) % HoursPerDay, half |-> 0]
                     ELSE [wall EXCEPT !.half = Min(@ + 1, RestOfHour)]
          /\ demo' = [demo EXCEPT
                !.loops = [l \in LoopIds |->
                              IF demo.loops[l].pc = "sleep"
                              THEN [demo.loops[l] EXCEPT !.slept = @ + 1]
                              ELSE demo.loops[l]],
                !.window = IF next_hour
                           THEN [live |-> demo.running, resets |-> 0]
                           ELSE @]
    /\ UNCHANGED nonDemoVars
    /\ UNCHANGED cacheVars

\* start, lines 65-69: the defaults are saved if there are none, running is
\* set and the thread l started
Started(d, dk, l) ==
    [d EXCEPT !.defaults = IF @.exists THEN @ ELSE SavedDefaults(dk),
              !.running = TRUE,
              !.loops[l] = [NoLoop EXCEPT !.pc = "while"]]

\* stop, lines 77-79: running is cleared; join(timeout=5) returns while the
\* thread sleeps
Stopped(d) == [d EXCEPT !.running = FALSE, !.window.live = FALSE]

\* start, lines 54-71
Start ==
    /\ demo.api = NoApi
    /\ IF ~IsDemoMode(demo.mode) \/ demo.running
       THEN /\ demo' = [demo EXCEPT !.api = [op |-> "start", ret |-> FALSE]]
            /\ UNCHANGED disk
       ELSE \E l \in LoopIds :
               /\ demo.loops[l].pc = "none"
               /\ demo' = [Started(demo, disk, l) EXCEPT
                     !.api = [op |-> "start", ret |-> TRUE]]
               /\ disk' = SavedDisk(disk, demo.defaults, now)
    /\ UNCHANGED <<wall, now, cache, thr>>
    /\ UNCHANGED nonDemoVars

\* stop, lines 73-82: join(timeout=5) returns while the thread sleeps
Stop ==
    /\ demo.api = NoApi
    /\ IF ~demo.running
       THEN demo' = [demo EXCEPT !.api = [op |-> "stop", ret |-> FALSE]]
       ELSE demo' = [Stopped(demo) EXCEPT !.api = [op |-> "stop", ret |-> TRUE]]
    /\ UNCHANGED wall
    /\ UNCHANGED nonDemoVars
    /\ UNCHANGED cacheVars

\* force_reset, lines 194-202
ForceReset ==
    /\ demo.api = NoApi
    /\ IF ~IsDemoMode(demo.mode)
       THEN /\ demo' = [demo EXCEPT !.api = [op |-> "force_reset", ret |-> FALSE]]
            /\ UNCHANGED <<disk, cache>>
       ELSE /\ demo' = [demo EXCEPT !.api = [op |-> "force_reset", ret |-> TRUE]]
            /\ disk' = ResetDisk(disk, demo.defaults, now)
            /\ cache' = ResetCaches(cache, demo.defaults)
    /\ UNCHANGED <<wall, now, thr>>
    /\ UNCHANGED nonDemoVars

\* save_current_as_new_defaults, lines 204-212
SaveCurrentAsNewDefaults ==
    /\ demo.api = NoApi
    /\ IF ~IsDemoMode(demo.mode)
       THEN /\ demo' = [demo EXCEPT
                  !.api = [op |-> "save_current_as_new_defaults", ret |-> FALSE]]
            /\ UNCHANGED disk
       ELSE /\ demo' = [demo EXCEPT
                  !.defaults = SavedDefaults(disk),
                  !.api = [op |-> "save_current_as_new_defaults", ret |-> TRUE]]
            /\ disk' = SavedDisk(disk, demo.defaults, now)
    /\ UNCHANGED <<wall, now, cache, thr>>
    /\ UNCHANGED nonDemoVars

\* the caller has its answer
ApiDone ==
    /\ demo.api # NoApi
    /\ demo' = [demo EXCEPT !.api = NoApi]
    /\ UNCHANGED wall
    /\ UNCHANGED nonDemoVars
    /\ UNCHANGED cacheVars

\* _run_service, line 94
ResetDue(w, last_reset_hour) ==
    MinuteOf(w) = RESET_HOUR_MINUTE /\ w.hour # last_reset_hour

\* _run_service, lines 88-94: `while self.running`, datetime.now(), and the
\* test for the reset
LoopCheck ==
    /\ \E l \in LoopIds :
          /\ demo.loops[l].pc = "while"
          /\ demo' = [demo EXCEPT !.loops[l] =
                IF ~demo.running
                THEN NoLoop
                ELSE IF ResetDue(wall, demo.last_reset_hour)
                     THEN [NoLoop EXCEPT !.pc = "reset", !.current_hour = wall.hour]
                     ELSE [NoLoop EXCEPT !.pc = "sleep"]]
    /\ UNCHANGED wall
    /\ UNCHANGED nonDemoVars
    /\ UNCHANGED cacheVars

\* _run_service, line 96: self._reset_to_defaults()
LoopReset ==
    /\ \E l \in LoopIds :
          /\ demo.loops[l].pc = "reset"
          /\ demo' = [demo EXCEPT !.loops[l].pc = "mark",
                                  !.window.resets = @ + 1]
          /\ disk' = ResetDisk(disk, demo.defaults, now)
          /\ cache' = ResetCaches(cache, demo.defaults)
    /\ UNCHANGED <<wall, now, thr>>
    /\ UNCHANGED nonDemoVars

\* _run_service, lines 97-100: self.last_reset_hour = current_hour, and
\* time.sleep(30) begins
LoopMark ==
    /\ \E l \in LoopIds :
          /\ demo.loops[l].pc = "mark"
          /\ demo' = [demo EXCEPT !.last_reset_hour = demo.loops[l].current_hour,
                                  !.loops[l] = [NoLoop EXCEPT !.pc = "sleep"]]
    /\ UNCHANGED wall
    /\ UNCHANGED nonDemoVars
    /\ UNCHANGED cacheVars

\* _run_service, line 100: time.sleep(30) returns
LoopWake ==
    /\ \E l \in LoopIds :
          /\ demo.loops[l].pc = "sleep"
          /\ demo.loops[l].slept >= 1
          /\ demo' = [demo EXCEPT !.loops[l] = [NoLoop EXCEPT !.pc = "while"]]
    /\ UNCHANGED wall
    /\ UNCHANGED nonDemoVars
    /\ UNCHANGED cacheVars

(***************************************************************************)
(* app/demo_mode.py: the decorators demo_restrict and                      *)
(* demo_restrict_container.                                                *)
(*   web : DEMO_MODE_ENABLED as the import of the module set it, and the    *)
(*         request a decorated endpoint has just answered: its arguments,   *)
(*         whether the wrapped handler was invoked and with what, what it   *)
(*         returned, and the response                                       *)
(***************************************************************************)
\* PROTECTED_CONTAINERS, line 19
PROTECTED_CONTAINERS == {"ddc", "caddy"}

\* DEMO_NOTICE_EN, line 25
DEMO_NOTICE_EN == "This feature is disabled on the demo server"

\* Python's None as the value of a parameter or field that is not given
NoValue == "<None>"

\* what a URL parameter or a field of the request data can hold
ContainerValues == {"ddc", "caddy", "web", "", NoValue}

\* bool(v) of a string or None
PyTruthy(v) == v # NoValue /\ v # ""

\* `a or b`
PyOr(a, b) == IF PyTruthy(a) THEN a ELSE b

\* request data: a JSON object, a JSON array, a form with fields, or none
BodyKinds == {"json", "json_array", "form", "none"}

\* the requests of the model: the URL parameters container_name and name
\* (kwargs) and the request-data fields container_name and container
Requests ==
    { r \in [container_name : ContainerValues, name : ContainerValues,
             body : BodyKinds,
             data_container_name : ContainerValues,
             data_container : ContainerValues] :
        r.body \in {"json_array", "none"}
            => r.data_container_name = NoValue /\ r.data_container = NoValue }

NoRequest ==
    [container_name |-> NoValue, name |-> NoValue, body |-> "none",
     data_container_name |-> NoValue, data_container |-> NoValue]

\* a JSON body of a response
Json(success, error, demo_mode, restricted_feature, protected_container) ==
    [success |-> success, error |-> error, demo_mode |-> demo_mode,
     restricted_feature |-> restricted_feature,
     protected_container |-> protected_container]

NoResponse == [status |-> 0, body |-> Json(FALSE, "", FALSE, "", "")]

\* what a wrapped handler can return
HandlerResults ==
    { [status |-> 200, body |-> Json(TRUE, "", FALSE, "", "")],
      [status |-> 500, body |-> Json(FALSE, "failed", FALSE, "", "")] }

\* feature_name of the decorated endpoints
FeatureNames == {"this feature", "container control"}

\* the outcome of a decorated call
Guarded(invoked, passed, resp, exc) ==
    [invoked |-> invoked, passed |-> passed, resp |-> resp, exc |-> exc]

\* f(*args, **kwargs) and the return of its result
Invoke(req, result) == Guarded(TRUE, req, result, "")

\* demo_restrict with the wrapped handler called before the test
DemoRestrictAfterCall(enabled, feature_name, req, result) ==
    IF enabled
    THEN Guarded(TRUE, req,
                 [status |-> 403,
                  body |-> Json(FALSE, DEMO_NOTICE_EN, TRUE, feature_name, "")], "")
    ELSE Invoke(req, result)

\* demo_restrict, lines 48-65
DemoRestrict(enabled, feature_name, req, result) ==
    IF enabled
    THEN Guarded(FALSE, NoRequest,
                 [status |-> 403,
                  body |-> Json(FALSE, DEMO_NOTICE_EN, TRUE, feature_name, "")], "")
    ELSE Invoke(req, result)

\* is_protected_container, lines 34-38
IsProtectedContainer(enabled, container_name) ==
    enabled /\ container_name \in PROTECTED_CONTAINERS

\* demo_restrict_container, line 79
UrlContainer(req) == PyOr(req.container_name, req.name)

\* demo_restrict_container, lines 85 and 87
DataContainer(req) == PyOr(req.data_container_name, req.data_container)

\* demo_restrict_container, lines 79-87: the name the decorator tests
CheckedContainer(req) ==
    IF PyTruthy(UrlContainer(req))
    THEN UrlContainer(req)
    ELSE IF req.body \in {"json", "form"}
         THEN DataContainer(req)
         ELSE UrlContainer(req)

\* the error message of line 92
ProtectedError(container_name) ==
    "Container \"" \o container_name \o "\" is protected on the demo server"

\* demo_restrict_container, lines 68-98; data.get on a JSON array raises
\* AttributeError at line 85
DemoRestrictContainer(enabled, req, result) ==
    IF ~enabled
    THEN Invoke(req, result)
    ELSE IF ~PyTruthy(UrlContainer(req)) /\ req.body = "json_array"
         THEN Guarded(FALSE, NoRequest, [NoResponse EXCEPT !.status = 500],
                      "AttributeError")
         ELSE IF PyTruthy(CheckedContainer(req))
                    /\ IsProtectedContainer(enabled, CheckedContainer(req))
              THEN Guarded(FALSE, NoRequest,
                           [status |-> 403,
                            body |-> Json(FALSE, ProtectedError(CheckedContainer(req)),
                                          TRUE, "", CheckedContainer(req))], "")
              ELSE Invoke(req, result)

NoWebCall ==
    [op |-> "none", feature_name |-> "", req |-> NoRequest, result |-> NoResponse,
     out |-> Guarded(FALSE, NoRequest, NoResponse, "")]

\* DEMO_MODE_ENABLED, line 16: DDC_MODE as it is when the module is imported
WebInit ==
    /\ web = [demo_mode_enabled |-> IsDemoMode(demo.mode), call |-> NoWebCall]

\* a request to an endpoint decorated with demo_restrict(feature_name)
RestrictedRequest ==
    /\ web.call = NoWebCall
    /\ \E feature_name \in FeatureNames, req \in Requests, result \in HandlerResults :
          web' = [web EXCEPT !.call =
                    [op |-> "demo_restrict", feature_name |-> feature_name,
                     req |-> req, result |-> result,
                     out |-> DemoRestrict(web.demo_mode_enabled, feature_name,
                                          req, result)]]
    /\ UNCHANGED nonWebVars

\* a request to an endpoint decorated with demo_restrict_container
ContainerRequest ==
    /\ web.call = NoWebCall
    /\ \E req \in Requests, result \in HandlerResults :
          web' = [web EXCEPT !.call =
                    [op |-> "demo_restrict_container", feature_name |-> "",
                     req |-> req, result |-> result,
                     out |-> DemoRestrictContainer(web.demo_mode_enabled, req, result)]]
    /\ UNCHANGED nonWebVars

\* the response has been sent
WebDone ==
    /\ web.call # NoWebCall
    /\ web' = [web EXCEPT !.call = NoWebCall]
    /\ UNCHANGED nonWebVars

(***************************************************************************)
(* services/demo/demo_update_messages_service.py:                          *)
(* DemoUpdateMessagesService.                                              *)
(*   upd : datetime.now() as the hour and the half minute of the hour,      *)
(*         DEMO_MODE, the fields running, messages_sent_this_hour and       *)
(*         current_hour, and what an observer of the channel sees: for the  *)
(*         clock hour under way and the one that ended last, the sends,     *)
(*         whether a message was sent twice and whether the service ran     *)
(*         through all of the hour; the time since the last send, and       *)
(*         whether two consecutive sends were more than 10 minutes apart    *)
(***************************************************************************)
\* the clock hours the model follows the service through
MaxMsgHours == 2

\* `self.messages_sent_this_hour < 12`, line 183
MessagesPerHour == 12

\* len(DEMO_UPDATE_MESSAGES), lines 38-123
NumDemoMessages == 12

\* `min(10, ...)`, lines 190 and 194: the cap of the wait in minutes
MaxWaitMinutes == 10

\* `60 - now.minute`, line 185
MinutesPerHour == 60

\* the clock counts half minutes: `max(wait_minutes, 0.5)`, line 195
HalvesPerHour == HalvesOfMinute * MinutesPerHour

MaxWaitHalves == HalvesOfMinute * MaxWaitMinutes

\* lines 185-195 in half minutes: with avg_interval =
\* min(10, minutes_remaining / messages_remaining) and random.uniform
\* anywhere in [0.5, 1.5], the waits of a whole number of half minutes that
\* wait_minutes can come out as
WaitChoices(minutes_remaining, messages_remaining) ==
    LET a == Min(MaxWaitMinutes * messages_remaining, minutes_remaining)
    IN  { k \in 1..MaxWaitHalves :
            \/ k = 1 /\ a <= messages_remaining
            \/ k = MaxWaitHalves /\ 3 * a >= MaxWaitHalves * messages_remaining
            \/ a <= k * messages_remaining /\ k * messages_remaining <= 3 * a }

NoHour == [whole |-> FALSE, sends |-> 0, repeated |-> FALSE]

UpdInit ==
    upd = [hour |-> 0, half |-> 0,
           demo_mode |-> IsDemoMode(demo.mode),
           running |-> FALSE,
           messages_sent_this_hour |-> 0,
           current_hour |-> -1,
           this_hour |-> NoHour, last_hour |-> NoHour,
           since |-> 0, late |-> FALSE, sent |-> FALSE]

\* the clock after k more half minutes
ClockAfter(u, k) ==
    [u EXCEPT !.hour = u.hour + (u.half + k) \div HalvesPerHour,
              !.half = (u.half + k) % HalvesPerHour]

\* k half minutes pass: an hour that ends is closed, and the time since the
\* last send grows
Elapse(u, k) ==
    LET v == ClockAfter(u, k)
        w == IF v.hour # u.hour
             THEN [v EXCEPT !.last_hour = u.this_hour,
                            !.this_hour = [NoHour EXCEPT !.whole = u.running]]
             ELSE v
    IN  [w EXCEPT !.since = IF u.sent THEN Min(@ + k, MaxWaitHalves + 1) ELSE @]

\* _send_random_message, lines 219-246: message i of DEMO_UPDATE_MESSAGES is
\* sent. The messages are numbered in the order in which the hour saw them
\* first, so that, as long as no message was repeated, i <= sends is a
\* message the hour has seen already
SendRandomMessage(u, channel, i) ==
    IF ~channel
    THEN u
    ELSE [u EXCEPT !.messages_sent_this_hour = @ + 1,
                   !.this_hour.sends = @ + 1,
                   !.this_hour.repeated = @ \/ i <= u.this_hour.sends,
                   !.late = @ \/ (u.sent /\ u.since > MaxWaitHalves),
                   !.since = 0,
                   !.sent = TRUE]

\* lines 176-180: the counter is reset when the hour has changed
HourChecked(u) ==
    IF u.hour # u.current_hour
    THEN [u EXCEPT !.current_hour = u.hour, !.messages_sent_this_hour = 0]
    ELSE u

\* start, lines 137-150; an hour in which the service starts on the stroke
\* of the hour is an hour it runs through
MsgStart ==
    /\ upd.demo_mode
    /\ ~upd.running
    /\ upd' = [upd EXCEPT !.running = TRUE,
                          !.this_hour.whole = upd.half = 0 /\ upd.this_hour.sends = 0]
    /\ UNCHANGED nonUpdVars

\* stop, lines 152-165: the task is cancelled in its sleep
MsgStop ==
    /\ upd.running
    /\ upd' = [upd EXCEPT !.running = FALSE, !.this_hour.whole = FALSE,
                          !.sent = FALSE, !.since = 0, !.late = FALSE]
    /\ UNCHANGED nonUpdVars

\* _run_service, lines 171-204: an iteration that waits and sends
MsgLoopSend ==
    /\ upd.running
    /\ LET u == HourChecked(upd)
           minutes_remaining == MinutesPerHour - u.half \div HalvesOfMinute
           messages_remaining == MessagesPerHour - u.messages_sent_this_hour
       IN  /\ u.messages_sent_this_hour < MessagesPerHour
           /\ \E k \in WaitChoices(minutes_remaining, messages_remaining),
                 i \in 1..NumDemoMessages :
                 /\ ClockAfter(u, k).hour < MaxMsgHours
                 /\ upd' = SendRandomMessage(Elapse(u, k), TRUE, i)
    /\ UNCHANGED nonUpdVars

\* _run_service, lines 208-210: all messages of the hour are sent, the loop
\* sleeps 60 seconds
MsgLoopIdle ==
    /\ upd.running
    /\ LET u == HourChecked(upd)
       IN  /\ u.messages_sent_this_hour >= MessagesPerHour
           /\ ClockAfter(u, HalvesOfMinute).hour < MaxMsgHours
           /\ upd' = Elapse(u, HalvesOfMinute)
    /\ UNCHANGED nonUpdVars

(***************************************************************************)
(* app/web/background.py: register_background_services and the teardown   *)
(* hook it registers.                                                      *)
(*   app : whether the services are registered, HAS_GEVENT, the module      *)
(*         global _demo_reset_service, a start that spawn_delayed has still *)
(*         to run, and whether the start of the demo reset service has      *)
(*         been carried out                                                 *)
(***************************************************************************)
AppInit ==
    app = [registered |-> FALSE, has_gevent |-> FALSE, demo_reset_service |-> FALSE,
           delayed_start |-> FALSE, started |-> FALSE]

\* the thread object that a start creates: the lowest id not in use
FreeLoops(d) == {l \in LoopIds : d.loops[l].pc = "none"}

NewLoop(d) == CHOOSE l \in FreeLoops(d) : \A k \in FreeLoops(d) : l <= k

\* cleanup_background_threads, lines 76-93: the stops of the other threads
\* complete or raise; then the demo reset service, if there is one, is
\* stopped (stop returns False when it is not running)
CleanupBackgroundThreads(d, service, completes) ==
    IF completes /\ service /\ d.running THEN Stopped(d) ELSE d

\* register_background_services, lines 34-73, and the end of its
\* `with app.app_context()` block, which runs the teardown hook registered
\* at line 75
RegisterBackgroundServices ==
    /\ ~app.registered
    /\ demo.api = NoApi
    /\ FreeLoops(demo) # {}
    /\ \E has_gevent \in BOOLEAN, completes \in BOOLEAN :
          LET is_demo == IsDemoMode(demo.mode)
              starts == is_demo /\ ~has_gevent /\ ~demo.running
              d == IF starts THEN Started(demo, disk, NewLoop(demo)) ELSE demo
          IN  /\ app' = [registered |-> TRUE, has_gevent |-> has_gevent,
                         demo_reset_service |-> is_demo,
                         delayed_start |-> is_demo /\ has_gevent,
                         started |-> starts]
              /\ demo' = CleanupBackgroundThreads(d, is_demo, completes)
              /\ disk' = IF starts THEN SavedDisk(disk, demo.defaults, now) ELSE disk
    /\ UNCHANGED <<wall, now, cache, thr>>
    /\ UNCHANGED nonDemoAppVars

\* spawn_delayed(5.0, _demo_reset_service.start), line 68, comes due
DelayedStart ==
    /\ app.delayed_start
    /\ demo.api = NoApi
    /\ app' = [app EXCEPT !.delayed_start = FALSE, !.started = @ \/ ~demo.running]
    /\ IF demo.running
       THEN UNCHANGED <<demo, disk>>
       ELSE /\ FreeLoops(demo) # {}
            /\ demo' = Started(demo, disk, NewLoop(demo))
            /\ disk' = SavedDisk(disk, demo.defaults, now)
    /\ UNCHANGED <<wall, now, cache, thr>>
    /\ UNCHANGED nonDemoAppVars

\* a request ends: its application context is popped and the teardown hook
\* runs
RequestTeardown ==
    /\ app.registered
    /\ demo.api = NoApi
    /\ \E completes \in BOOLEAN :
          demo' = CleanupBackgroundThreads(demo, app.demo_reset_service, completes)
    /\ UNCHANGED <<app, wall>>
    /\ UNCHANGED cacheVars
    /\ UNCHANGED nonDemoAppVars

\* the first of two identical get_filtered_logs calls, as its caller keeps
\* it: its arguments, its result, whether the second call has been made,
\* and whether the log files or the engine's answer changed since
NoFirst ==
    [set |-> FALSE, log_type |-> "", max_lines |-> 0, out |-> NoCall,
     again |-> FALSE, files |-> FALSE, engine |-> FALSE]

\* the environment changed (what: "files" or "engine") between a first
\* call and its repetition
Changed(f, what) == IF f.set /\ ~f.again THEN [f EXCEPT ![what] = TRUE] ELSE f

Init ==
    /\ files = AllAbsent
    /\ engine = Healthy(<<>>)
    /\ helper = TRUE
    /\ store = StoreOK(<<>>)
    /\ call = Idle
    /\ first = NoFirst
    /\ CacheInit
    /\ DemoInit
    /\ WebInit
    /\ UpdInit
    /\ AppInit

Existing(fs) == {p \in Paths : Exists(fs, p)}

\* the environment: a log file appears
WriteFile ==
    /\ call = Idle
    /\ Cardinality(Existing(files)) < MaxFiles
    /\ \E p \in Paths, st \in FileStates :
          /\ ~Exists(files, p)
          /\ files' = [files EXCEPT ![p] = st]
    /\ first' = Changed(first, "files")
    /\ UNCHANGED <<engine, helper, store, call>>
    /\ UNCHANGED nonLogVars

\* the environment: a log file is removed
RemoveFile ==
    /\ call = Idle
    /\ \E p \in Existing(files) : files' = [files EXCEPT ![p] = Absent]
    /\ first' = Changed(first, "files")
    /\ UNCHANGED <<engine, helper, store, call>>
    /\ UNCHANGED nonLogVars

\* the environment: the engine's condition changes
SetEngine ==
    /\ call = Idle
    /\ \E e \in EngineStates : e # engine /\ engine' = e
    /\ first' = Changed(first, "engine")
    /\ UNCHANGED <<files, helper, store, call>>
    /\ UNCHANGED nonLogVars

\* the environment: the async last resort gets a condition of its own
SetAsync ==
    /\ call = Idle
    /\ \E e \in AsyncStates : e # engine /\ engine' = e
    /\ first' = Changed(first, "engine")
    /\ UNCHANGED <<files, helper, store, call>>
    /\ UNCHANGED nonLogVars

\* the environment: utils.common_helpers becomes (un)available
SetHelper ==
    /\ call = Idle
    /\ helper' = ~helper
    /\ UNCHANGED <<files, engine, store, call, first>>
    /\ UNCHANGED nonLogVars

\* the container names a request of the model asks for: the own
\* container, another container, a name with a character outside
\* [A-Za-z0-9_.-], and a name that ends in a newline
ServiceNames == { default_container, OtherContainer, <<"a", "$">>, <<"a", NL>> }

\* a caller invokes ContainerLogService.get_container_logs
GetContainerLogs ==
    /\ call = Idle
    /\ \E container_name \in ServiceNames, max_lines \in 1..MaxLinesArg :
          LET r == GetContainerLogsCall(files, engine, helper, container_name, max_lines)
          IN  call' = [Idle EXCEPT !.op = "get_container_logs",
                                   !.container_name = container_name,
                                   !.max_lines = max_lines,
                                   !.out = r.out, !.io = r.io]
    /\ UNCHANGED <<files, engine, helper, store, first>>
    /\ UNCHANGED nonLogVars

\* the environment: an empty log file appears
WriteEmptyFile ==
    /\ call = Idle
    /\ Cardinality(Existing(files)) < MaxFiles
    /\ \E p \in Paths :
          /\ ~Exists(files, p)
          /\ files' = [files EXCEPT ![p] = TextFile(<<>>)]
    /\ first' = Changed(first, "files")
    /\ UNCHANGED <<engine, helper, store, call>>
    /\ UNCHANGED nonLogVars

\* a client requests GET /container_logs/<container_name>
RouteContainerLogs ==
    /\ call = Idle
    /\ \E container_name \in ServiceNames :
          LET r == GetContainerLogsCall(files, engine, helper, container_name, RouteMaxLines)
              h == RouteContainerLogsAnswer(files, engine, r.out, container_name)
          IN  call' = [Idle EXCEPT !.op = "route_container_logs",
                                   !.container_name = container_name,
                                   !.max_lines = RouteMaxLines,
                                   !.out = r.out, !.io = r.io,
                                   !.status = h.status, !.body = h.body]
    /\ UNCHANGED <<files, engine, helper, store, first>>
    /\ UNCHANGED nonLogVars

\* the environment: the action-log store changes or starts to fail
SetStore ==
    /\ call = Idle
    /\ \E st \in {StoreOK(t) : t \in StoreTexts} \cup {StoreFails(c) : c \in StoreErrors} :
          st # store /\ store' = st
    /\ UNCHANGED <<files, engine, helper, call, first>>
    /\ UNCHANGED nonLogVars

\* a caller invokes ContainerLogService.get_action_logs
GetActionLogs ==
    /\ call = Idle
    /\ \E format_type \in {"text", "json"}, limit \in 1..MaxLinesArg :
          call' = [Idle EXCEPT !.op = "get_action_logs",
                               !.arg = JStr(format_type), !.max_lines = limit,
                               !.out = GetActionLogsCall(store, format_type, limit)]
    /\ UNCHANGED <<files, engine, helper, store, first>>
    /\ UNCHANGED nonLogVars

\* a client requests GET /action_logs
RouteActionLogs ==
    /\ call = Idle
    /\ LET svc == GetActionLogsCall(store, "text", RouteMaxLines)
           h == RouteActionLogsAnswer(svc)
       IN  call' = [Idle EXCEPT !.op = "route_action_logs",
                                !.arg = JStr("text"), !.max_lines = RouteMaxLines,
                                !.out = svc, !.status = h.status, !.body = h.body]
    /\ UNCHANGED <<files, engine, helper, store, first>>
    /\ UNCHANGED nonLogVars

\* a client requests GET /action_logs_json
RouteActionLogsJson ==
    /\ call = Idle
    /\ LET svc == GetActionLogsCall(store, "json", RouteMaxLines)
           h == RouteActionLogsJsonAnswer(svc)
       IN  call' = [Idle EXCEPT !.op = "route_action_logs_json",
                                !.arg = JStr("json"), !.max_lines = RouteMaxLines,
                                !.out = svc, !.status = h.status, !.body = h.body]
    /\ UNCHANGED <<files, engine, helper, store, first>>
    /\ UNCHANGED nonLogVars

\* a caller invokes ContainerLogService.clear_logs
ClearLogs ==
    /\ call = Idle
    /\ \E log_type \in LogTypeValues :
          call' = [Idle EXCEPT !.op = "clear_logs", !.arg = log_type,
                               !.out = ClearLogsCall(log_type)]
    /\ UNCHANGED <<files, engine, helper, store, first>>
    /\ UNCHANGED nonLogVars

\* a client requests POST /clear_logs
RouteClearLogs ==
    /\ call = Idle
    /\ \E body \in ClearBodies :
          LET lt == RouteLogType(body)
          IN  IF lt.exc # ""
              THEN call' = [Idle EXCEPT !.op = "route_clear_logs",
                                        !.out = Raised(lt.exc), !.status = 500,
                                        !.body = Some(<<"Service error occurred">>)]
              ELSE LET svc == ClearLogsCall(lt.val)
                       h == RouteClearLogsAnswer(svc)
                   IN  call' = [Idle EXCEPT !.op = "route_clear_logs", !.arg = lt.val,
                                            !.out = svc, !.status = h.status,
                                            !.body = h.body]
    /\ UNCHANGED <<files, engine, helper, store, first>>
    /\ UNCHANGED nonLogVars

\* the lines of the container log streams that are filtered: one with a
\* bot keyword in other case, one without keyword, one with a discord and
\* an application keyword, one with a Web UI keyword
StreamLineSet ==
    { <<"C", "o", "g", "s">>,
      <<"c", "a", "c", "h", "e">>,
      <<"x">>,
      <<"I", "N", "F", "O", " ", "g", "u", "i", "l", "d">>,
      <<"H", "T", "T", "P">> }

\* the streams of n lines, each line ended by a newline
RECURSIVE StreamsOfLen(_)
StreamsOfLen(n) ==
    IF n = 0 THEN {<<>>}
    ELSE {st \o l \o <<NL>> : st \in StreamsOfLen(n - 1), l \in StreamLineSet}

FilterStreams == UNION {StreamsOfLen(n) : n \in 0..MaxStreamLines}

\* the environment: the own container has written its log
SetStream ==
    /\ call = Idle
    /\ \E st \in FilterStreams : Healthy(st) # engine /\ engine' = Healthy(st)
    /\ first' = Changed(first, "engine")
    /\ UNCHANGED <<files, helper, store, call>>
    /\ UNCHANGED nonLogVars

\* a caller invokes ContainerLogService.get_filtered_logs
GetFilteredLogs ==
    /\ call = Idle
    /\ \E log_type \in FilteredTypes \cup {"action"}, max_lines \in 1..MaxLinesArg :
          LET r == GetFilteredLogsCall(files, engine, log_type, max_lines)
          IN  call' = [Idle EXCEPT !.op = "get_filtered_logs",
                                   !.arg = JStr(log_type), !.max_lines = max_lines,
                                   !.out = r.out, !.io = r.io]
    /\ UNCHANGED <<files, engine, helper, store, first>>
    /\ UNCHANGED nonLogVars

\* the request is over: its LogResult is handed over and discarded
RequestDone ==
    /\ call # Idle
    /\ call' = Idle
    /\ first' = IF first.again THEN NoFirst ELSE first
    /\ UNCHANGED <<files, engine, helper, store>>
    /\ UNCHANGED nonLogVars

Next == WriteFile \/ RemoveFile \/ SetEngine \/ GetContainerLogs \/ RequestDone

Spec == Init /\ [][Next]_vars

\* the resolver where the async last resort has conditions of its own
NextAsync ==
    WriteFile \/ RemoveFile \/ SetEngine \/ SetAsync \/ GetContainerLogs \/ RequestDone

SpecAsync == Init /\ [][NextAsync]_vars

\* the service behind its route, with or without utils.common_helpers
NextRoute ==
    \/ WriteFile \/ WriteEmptyFile \/ RemoveFile \/ SetEngine \/ SetHelper
    \/ GetContainerLogs \/ RouteContainerLogs \/ RequestDone

SpecRoute == Init /\ [][NextRoute]_vars

\* action logs and clear_logs, over the action-log store and one log file
NextAction ==
    \/ SetStore \/ GetActionLogs \/ RouteActionLogs \/ RouteActionLogsJson
    \/ ClearLogs \/ RouteClearLogs \/ RequestDone

SpecAction == Init /\ [][NextAction]_vars

\* the filtered fallback: no category file exists, the engine varies
NextFilter == SetStream \/ SetEngine \/ SetAsync \/ GetFilteredLogs \/ RequestDone

SpecFilter == Init /\ [][NextFilter]_vars

\* the category files come and go under a healthy engine
NextCategory ==
    WriteFile \/ WriteEmptyFile \/ RemoveFile \/ GetFilteredLogs \/ RequestDone

SpecCategory == Init /\ [][NextCategory]_vars

\* the lines a logger appends to its file: text, a blank line, an empty line
TailLineSet == { <<"x">>, <<" ">>, <<>> }

\* the file whose tail is read
TailPath == BotPaths[1]

\* the environment: a logger appends a line to its file; the last line may
\* still lack its newline
AppendLine ==
    /\ call = Idle
    /\ files[TailPath].kind \in {"absent", "text"}
    /\ LET t == files[TailPath].text
       IN  /\ IF t = <<>> THEN TRUE ELSE t[Len(t)] = NL
           /\ Cardinality({i \in 1..Len(t) : t[i] = NL}) < MaxTailLines
           /\ \E l \in TailLineSet, ended \in BOOLEAN :
                 /\ ended \/ l # <<>>
                 /\ files' = [files EXCEPT ![TailPath] =
                                 TextFile(t \o l \o (IF ended THEN <<NL>> ELSE <<>>))]
    /\ first' = Changed(first, "files")
    /\ UNCHANGED <<engine, helper, store, call>>
    /\ UNCHANGED nonLogVars

\* the service reads the tail of a log file (_read_log_file)
ReadLogFileTail ==
    /\ call = Idle
    /\ \E max_lines \in 1..MaxLinesArg :
          LET content == ReadLogFile(files, TailPath, max_lines)
          IN  call' = [Idle EXCEPT !.op = "read_log_file",
                                   !.arg = JStr(TailPath),
                                   !.max_lines = max_lines,
                                   !.out = [NoCall EXCEPT !.content = content],
                                   !.io = <<[op |-> "read", target |-> TailPath]>>]
    /\ UNCHANGED <<files, engine, helper, store, first>>
    /\ UNCHANGED nonLogVars

\* tail reads of a file that grows
NextTail == AppendLine \/ RemoveFile \/ ReadLogFileTail \/ RequestDone

SpecTail == Init /\ [][NextTail]_vars

\* the lines the own container writes while its log is being watched
OwnLineSet == { <<"C", "o", "g", "s">>, <<"x">> }

\* the environment: the own container writes a line to its log
OwnContainerLogs ==
    /\ call = Idle
    /\ engine.module /\ engine.daemon = "up" /\ engine.running
    /\ Cardinality({i \in 1..Len(engine.stream) : engine.stream[i] = NL}) < MaxStreamLines
    /\ \E l \in OwnLineSet : engine' = [engine EXCEPT !.stream = @ \o l \o <<NL>>]
    /\ first' = Changed(first, "engine")
    /\ UNCHANGED <<files, helper, store, call>>
    /\ UNCHANGED nonLogVars

\* the environment: the bot's logger writes its log file anew
BotLogWritten ==
    /\ call = Idle
    /\ \E t \in FileTexts :
          /\ files[BotPaths[1]] # TextFile(t)
          /\ files' = [files EXCEPT ![BotPaths[1]] = TextFile(t)]
    /\ first' = Changed(first, "files")
    /\ UNCHANGED <<engine, helper, store, call>>
    /\ UNCHANGED nonLogVars

\* a caller invokes get_filtered_logs and keeps the result to compare it
\* with that of a second, identical call
FirstFilteredLogs ==
    /\ call = Idle
    /\ \E log_type \in FilteredTypes, max_lines \in 1..MaxLinesArg :
          LET r == GetFilteredLogsCall(files, engine, log_type, max_lines)
          IN  /\ call' = [Idle EXCEPT !.op = "get_filtered_logs",
                                      !.arg = JStr(log_type), !.max_lines = max_lines,
                                      !.out = r.out, !.io = r.io]
              /\ first' = [NoFirst EXCEPT !.set = TRUE, !.log_type = log_type,
                                          !.max_lines = max_lines, !.out = r.out]
    /\ UNCHANGED <<files, engine, helper, store>>
    /\ UNCHANGED nonLogVars

\* a second call of a service that remembers a call: it reads one line fewer
SecondFilteredLogsRemembering ==
    /\ call = Idle
    /\ first.set /\ ~first.again
    /\ LET r == GetFilteredLogsCall(files, engine, first.log_type, first.max_lines - 1)
       IN  call' = [Idle EXCEPT !.op = "get_filtered_logs",
                                !.arg = JStr(first.log_type),
                                !.max_lines = first.max_lines,
                                !.out = r.out, !.io = r.io]
    /\ first' = [first EXCEPT !.again = TRUE]
    /\ UNCHANGED <<files, engine, helper, store>>
    /\ UNCHANGED nonLogVars

\* the caller invokes get_filtered_logs again, with the same category and
\* max_lines
SecondFilteredLogs ==
    /\ call = Idle
    /\ first.set /\ ~first.again
    /\ LET r == GetFilteredLogsCall(files, engine, first.log_type, first.max_lines)
       IN  call' = [Idle EXCEPT !.op = "get_filtered_logs",
                                !.arg = JStr(first.log_type),
                                !.max_lines = first.max_lines,
                                !.out = r.out, !.io = r.io]
    /\ first' = [first EXCEPT !.again = TRUE]
    /\ UNCHANGED <<files, engine, helper, store>>
    /\ UNCHANGED nonLogVars

\* two identical calls of get_filtered_logs, the environment moving between
\* them
NextTwice ==
    \/ BotLogWritten \/ RemoveFile \/ SetEngine \/ OwnContainerLogs
    \/ FirstFilteredLogs \/ SecondFilteredLogs \/ RequestDone

SpecTwice == Init /\ [][NextTwice]_vars

\* the config caches of two processes over one config directory
NextCache ==
    \/ Tick \/ WriteConfig
    \/ GetCachedConfigLock \/ GetCachedConfigCheck
    \/ SetCachedConfigLock \/ SetCachedConfigStore
    \/ InvalidateLock \/ InvalidateClearConfig \/ InvalidateClearToken
    \/ InvalidateClearHash \/ TouchTimestampFile
    \/ ThreadReturns

SpecCache == Init /\ [][NextCache]_vars

\* the token cache under threads that interleave statement by statement
NextToken ==
    \/ GetCachedTokenHash \/ GetCachedTokenTruthy \/ GetCachedTokenReturn
    \/ SetCachedTokenValue \/ SetCachedTokenHash
    \/ ClearTokenCacheValue \/ ClearTokenCacheHash
    \/ InvalidateLock \/ InvalidateClearConfig \/ InvalidateClearToken
    \/ InvalidateClearHash \/ TouchTimestampFile
    \/ ThreadReturns

SpecToken == Init /\ [][NextToken]_vars

\* the demo reset service in demo mode, over the hours of the wall clock
NextDemo ==
    \/ WallTick \/ Start \/ Stop
    \/ LoopCheck \/ LoopReset \/ LoopMark \/ LoopWake
    \/ ApiDone

SpecDemo == Init /\ [][NextDemo]_vars

\* the public methods of the demo reset service under every DDC_MODE
NextMode ==
    \/ WriteConfig
    \/ Start \/ Stop \/ ForceReset \/ SaveCurrentAsNewDefaults
    \/ LoopCheck
    \/ ApiDone

SpecMode == Init /\ [][NextMode]_vars

\* the endpoints decorated with demo_restrict and demo_restrict_container
NextGuard == RestrictedRequest \/ ContainerRequest \/ WebDone

SpecGuard == Init /\ [][NextGuard]_vars

\* the demo update messages service over the first clock hours
NextMessages ==
    \/ MsgStart \/ MsgStop
    \/ MsgLoopSend \/ MsgLoopIdle

SpecMessages == Init /\ [][NextMessages]_vars

\* the web application: registration, requests, and the loop of the demo
\* reset service
NextApp ==
    \/ RegisterBackgroundServices \/ DelayedStart \/ RequestTeardown
    \/ WallTick \/ LoopCheck \/ LoopReset \/ LoopMark \/ LoopWake

SpecApp == Init /\ [][NextApp]_vars

(***************************************************************************)
(* Properties.                                                             *)
(***************************************************************************)
ServiceCall == call.op = "get_container_logs"

EngineQueried == \E i \in 1..Len(call.io) : call.io[i].op = "engine"

FilesRead == {call.io[i].target : i \in {j \in 1..Len(call.io) : call.io[j].op = "read"}}

\* the number of lines of a text: its newlines, and a last line without one
NumLines(t) ==
    Cardinality({i \in 1..Len(t) : t[i] = NL})
    + (IF t # <<>> /\ t[Len(t)] # NL THEN 1 ELSE 0)

\* c is the last min(n, lines of t) lines of t: a suffix of t that starts
\* at the start of a line and has that many lines
IsLastLines(c, t, n) ==
    \E k \in 0..Len(t) :
        /\ c = SubSeq(t, k + 1, Len(t))
        /\ k = 0 \/ t[k] = NL
        /\ NumLines(c) = Min(n, NumLines(t))

\* the last min(n, lines of t) lines of t
LastLines(t, n) ==
    CHOOSE c \in {SubSeq(t, j, Len(t)) : j \in 1..Len(t) + 1} : IsLastLines(c, t, n)

\* some character of the text is not whitespace
HasText(t) == \E i \in 1..Len(t) : t[i] \notin Whitespace

\* C1: get_container_logs never raises to its caller: whatever the engine
\* call, the async fallback or a file read does, the call returns a
\* LogResult, and a failure is a LogResult with success = False.
C1_NeverRaises ==
    ServiceCall => call.out.exc = ""

\* C2: every successful LogResult of get_container_logs or
\* get_filtered_logs carries content that is non-empty after trimming.
C2_SuccessHasContent ==
    (call.op \in {"get_container_logs", "get_filtered_logs"} /\ call.out.success)
        => (~call.out.content.none /\ HasText(call.out.content.s))

\* the engine reports that the named container does not exist
EngineSaysNotFound ==
    /\ engine.module
    /\ engine.daemon = "up"
    /\ ~(engine.running /\ call.container_name \in KnownContainers)

\* C6: when get_container_logs finds no content in any source, the failure
\* is 404 only if the engine reported that the container does not exist,
\* and 500 if the engine query failed for another reason.
C6_NotFoundOnlyWhenAbsent ==
    (ServiceCall /\ call.out.exc = "" /\ ~call.out.success /\ EngineQueried)
        => /\ call.out.status_code = 404 => EngineSaysNotFound
           /\ ~EngineSaysNotFound => call.out.status_code = 500

\* the combined local log files, in path order, that are text files
OwnTextFiles == {k \in 1..Len(ContainerPaths) : files[ContainerPaths[k]].kind = "text"}

\* the k-th combined local log file holds a text of which the last
\* max_lines lines hold more than whitespace
OwnTailHasText(k) ==
    /\ k \in OwnTextFiles
    /\ HasText(LastLines(files[ContainerPaths[k]].text, call.max_lines))

OwnCall == ServiceCall /\ call.container_name = default_container

\* C8 (as stated): get_container_logs for the own container, with a
\* combined local log file that exists with non-empty content, succeeds
\* with the last max_lines lines of that file and never queries the engine.
C8_OwnFileServed ==
    (OwnCall /\ \E k \in OwnTextFiles : HasText(files[ContainerPaths[k]].text))
        => /\ call.out.exc = "" /\ call.out.success
           /\ ~EngineQueried
           /\ \E k \in OwnTextFiles :
                 /\ HasText(files[ContainerPaths[k]].text)
                 /\ call.out.content.s = LastLines(files[ContainerPaths[k]].text,
                                                   call.max_lines)

\* C8 (amended): get_container_logs for the own container, with a readable
\* combined local log file whose last max_lines lines hold more than
\* whitespace, succeeds with the last max_lines lines of the first such
\* file in path order and never queries the engine.
C8_OwnTailServed ==
    (OwnCall /\ \E k \in OwnTextFiles : OwnTailHasText(k))
        => /\ call.out.exc = "" /\ call.out.success
           /\ ~EngineQueried
           /\ \E k \in OwnTextFiles :
                 /\ OwnTailHasText(k)
                 /\ \A j \in 1..(k - 1) : ~OwnTailHasText(j)
                 /\ call.out.content.s = LastLines(files[ContainerPaths[k]].text,
                                                   call.max_lines)

\* C8 happens: the own container is asked for, the first combined log file
\* exists but its last max_lines lines are blank, the second one has more
\* lines than asked for, and its tail is what the call returns
C8_Witness ==
    /\ OwnCall
    /\ 1 \in OwnTextFiles /\ ~OwnTailHasText(1)
    /\ OwnTailHasText(2)
    /\ NumLines(files[ContainerPaths[2]].text) > call.max_lines
    /\ call.out.success
    /\ call.out.content.s # files[ContainerPaths[2]].text

\* the engine query of the call failed: no docker module, an API or
\* transport error, or no such container, and no answer from the async
\* last resort either
EngineFailed ==
    /\ EngineQueried
    /\ \/ ~engine.module
       \/ engine.daemon # "up"
       \/ ~(engine.running /\ call.container_name \in KnownContainers)
    /\ engine.async # "ok"

\* the i-th log-file location, in the order of the categories and of their
\* paths, is a text file of which the last max_lines lines hold more than
\* whitespace
LocationHasText(i) ==
    /\ files[AllLogPaths[i].path].kind = "text"
    /\ HasText(LastLines(files[AllLogPaths[i].path].text, call.max_lines))

\* C9: when the engine query of get_container_logs fails for any reason,
\* the call scans the log-file locations of all categories in their
\* configured order and returns, as a success, the first file whose content
\* is non-empty, prefixed with a tag that names its category; no later file
\* is returned when an earlier one is non-empty.
C9_FallbackScan ==
    (ServiceCall /\ EngineFailed /\ \E i \in 1..Len(AllLogPaths) : LocationHasText(i))
        => /\ call.out.exc = "" /\ call.out.success
           /\ \E i \in 1..Len(AllLogPaths) :
                 /\ LocationHasText(i)
                 /\ \A j \in 1..(i - 1) : ~LocationHasText(j)
                 /\ call.out.content.s[1] \in {FallbackTag(AllLogPaths[i].log_type),
                                               UnavailableTag(AllLogPaths[i].log_type)}
                 /\ SubSeq(call.out.content.s, 4, Len(call.out.content.s))
                      = LastLines(files[AllLogPaths[i].path].text, call.max_lines)

\* the container name holds a character outside [A-Za-z0-9_.-]
InvalidName ==
    \E i \in 1..Len(call.container_name) : call.container_name[i] \notin NameClass

RouteCall == call.op = "route_container_logs"

\* C3: for every container name with a character outside [A-Za-z0-9_.-],
\* get_container_logs returns a failure with status 400 and performs no
\* file read and no engine query before returning.
C3_InvalidNameRejected ==
    ((ServiceCall \/ RouteCall) /\ InvalidName)
        => /\ call.out.exc = "" /\ ~call.out.success
           /\ call.out.status_code = 400
           /\ call.io = <<>>

\* C4: GET /container_logs/<container_name> answers 400 whenever the name
\* is invalid and 200 only on success; in particular an invalid container
\* name is never answered with 200.
C4_InvalidNameNever200 ==
    (RouteCall /\ InvalidName) => call.status # 200

ActionCall == call.op \in {"get_action_logs", "route_action_logs", "route_action_logs_json"}

\* C5: a failure of the action-log store is reported by get_action_logs as
\* a failed LogResult with status 500, and the action-log endpoints do not
\* turn it into a successful or placeholder answer.
C5_StoreFailureReported ==
    (ActionCall /\ store.mode # "ok")
        => /\ call.out.exc = "" /\ ~call.out.success
           /\ call.out.status_code = 500
           /\ call.op # "get_action_logs" => call.status = 500

\* the message of a cleared-logs answer says that engine logs persist
SaysLogsPersist(data) ==
    ~data.none /\ \E i \in 1..Len(data.s) : data.s[i] = "persist until container restart"

\* C7: clear_logs returns a successful result whose message contains
\* "persist until container restart" for every value of log_type, strings
\* or not (it deletes and truncates nothing: no action changes files or
\* engine).
C7_ClearAlwaysSucceeds ==
    (call.op \in {"clear_logs", "route_clear_logs"} /\ call.arg # NoArg)
        => /\ call.out.exc = "" /\ call.out.success
           /\ SaysLogsPersist(call.out.data)

FilterCall == call.op = "get_filtered_logs" /\ call.arg.v \in FilteredTypes

\* the position of the n-th newline of a text
NthNewline(t, n) ==
    CHOOSE p \in 1..Len(t) : t[p] = NL /\ Cardinality({q \in 1..p : t[q] = NL}) = n

\* the lines of a text, without their newlines
LinesOf(t) ==
    [i \in 1..NumLines(t) |->
        LET from == IF i = 1 THEN 1 ELSE NthNewline(t, i - 1) + 1
            to == IF Cardinality({q \in 1..Len(t) : t[q] = NL}) >= i
                  THEN NthNewline(t, i) - 1 ELSE Len(t)
        IN  SubSeq(t, from, to)]

\* the keyword occurs in the line, letter case aside
KeywordIn(line, kw) ==
    \E i \in 1..(Len(line) - Len(kw) + 1) :
        \A j \in 1..Len(kw) : LowerChar(line[i + j - 1]) = LowerChar(kw[j])

HasKeyword(line, log_type) ==
    \E k \in 1..Len(CategoryPatterns(log_type)) :
        KeywordIn(line, CategoryPatterns(log_type)[k])

\* the positions of the lines of a text that hold a keyword of the category
MatchingIn(t, log_type) ==
    {i \in 1..NumLines(t) : HasKeyword(LinesOf(t)[i], log_type)}

\* the last min(K, n) matching lines of a text, in their order, joined by
\* newlines
LastMatching(t, log_type, n) ==
    LET idx == MatchingIn(t, log_type)
        keep == {i \in idx : Cardinality({j \in idx : j >= i}) <= n}
        nth(k) == CHOOSE i \in keep : Cardinality({j \in keep : j <= i}) = k
    IN  JoinNL([k \in 1..Cardinality(keep) |-> LinesOf(t)[nth(k)]])

\* no file of the category exists and the engine gives the own container's
\* log, through the sync call or, outside an event loop, the async one
FilteredFromStream ==
    /\ FilterCall
    /\ \A k \in 1..Len(CategoryPaths(call.arg.v)) :
          ~Exists(files, CategoryPaths(call.arg.v)[k])
    /\ engine.module
    /\ \/ engine.daemon = "up" /\ engine.running
       \/ ~engine.loop /\ engine.async = "ok"

\* C10 (as stated): in the filtered fallback, for a container log stream of
\* N lines of which K >= 1 hold a keyword of the category, the content is
\* exactly the last min(K, max_lines) matching lines of the stream, in
\* their order, for every N, K and max_lines.
C10_LastMatchingOfStream ==
    (FilteredFromStream /\ MatchingIn(engine.stream, call.arg.v) # {})
        => /\ call.out.exc = "" /\ call.out.success
           /\ call.out.content.s = LastMatching(engine.stream, call.arg.v, call.max_lines)

\* C10 (amended): in the filtered fallback the engine is asked for the last
\* 2 * max_lines lines of the stream; if K >= 1 of these hold a keyword of
\* the category, the content is exactly the last min(K, max_lines) matching
\* lines among them, in their order; if none does, the content is the
\* category's placeholder message.
C10_LastMatchingOfTail ==
    FilteredFromStream
        => /\ call.out.exc = "" /\ call.out.success
           /\ LET seen == LastLines(engine.stream, 2 * call.max_lines)
              IN  IF MatchingIn(seen, call.arg.v) # {}
                  THEN call.out.content.s = LastMatching(seen, call.arg.v, call.max_lines)
                  ELSE call.out.content.s = <<NoLogsMessage(call.arg.v)>>

\* C10 happens: the stream is longer than the 2 * max_lines lines asked
\* for, more than max_lines of these match, a line before them matches too,
\* and the content is cut to the last matching lines
C10_Witness ==
    /\ FilteredFromStream
    /\ NumLines(engine.stream) > 2 * call.max_lines
    /\ Cardinality(MatchingIn(LastLines(engine.stream, 2 * call.max_lines), call.arg.v))
          > call.max_lines
    /\ Cardinality(MatchingIn(engine.stream, call.arg.v))
          > Cardinality(MatchingIn(LastLines(engine.stream, 2 * call.max_lines), call.arg.v))
    /\ call.out.success
    /\ NumLines(call.out.content.s) = call.max_lines

\* no configured file of the requested category exists
CategoryFilesAbsent ==
    \A k \in 1..Len(CategoryPaths(call.arg.v)) :
        ~Exists(files, CategoryPaths(call.arg.v)[k])

\* C11: for each of the categories bot, discord, webui and application, if
\* every configured file path of the category is absent, get_filtered_logs
\* returns a LogResult without raising, whatever the engine call does and
\* whether or not an event loop is running.
C11_FilteredNeverRaises ==
    (FilterCall /\ CategoryFilesAbsent) => call.out.exc = ""

\* the container-log step gives no text: the sync query fails and the async
\* one is not run to an answer
ContainerLogStepFails ==
    ~(engine.module /\ engine.daemon = "up" /\ engine.running)
    /\ ~(engine.module /\ ~engine.loop /\ engine.async = "ok")

\* C12: in the filtered fallback, if the keyword filter matches no line, or
\* if the container-log step fails, the result is a success whose content is
\* the category's placeholder message; never an empty success, never a
\* failure.
C12_PlaceholderOnNothing ==
    (/\ FilterCall /\ CategoryFilesAbsent
     /\ \/ ContainerLogStepFails
        \/ MatchingIn(LastLines(engine.stream, 2 * call.max_lines), call.arg.v) = {})
        => /\ call.out.exc = "" /\ call.out.success
           /\ call.out.content = Some(<<NoLogsMessage(call.arg.v)>>)

\* the files of the requested category that hold a text
CategoryTextFiles ==
    {k \in 1..Len(CategoryPaths(call.arg.v)) :
        files[CategoryPaths(call.arg.v)[k]].kind = "text"}

CategoryText(k) == files[CategoryPaths(call.arg.v)[k]].text

\* the k-th file of the category holds a text of which the last max_lines
\* lines hold more than whitespace
CategoryTailHasText(k) ==
    k \in CategoryTextFiles /\ HasText(LastLines(CategoryText(k), call.max_lines))

\* C13 (as stated): get_filtered_logs tries the file paths of the category
\* in list order and returns the tail of the first path that exists and has
\* non-empty content; an empty or whitespace-only file is skipped, and the
\* container-log fallback is used only when no path of the category
\* qualifies.
C13_FirstNonEmptyFile ==
    FilterCall
        => IF \E k \in CategoryTextFiles : HasText(CategoryText(k))
           THEN /\ call.out.exc = "" /\ call.out.success
                /\ ~EngineQueried
                /\ \E k \in CategoryTextFiles :
                      /\ HasText(CategoryText(k))
                      /\ \A j \in 1..(k - 1) :
                            ~(j \in CategoryTextFiles /\ HasText(CategoryText(j)))
                      /\ call.out.content.s = LastLines(CategoryText(k), call.max_lines)
           ELSE EngineQueried

\* C13 (amended): get_filtered_logs tries the file paths of the category in
\* list order and returns the tail of the first readable file whose last
\* max_lines lines hold more than whitespace; a file whose tail is empty or
\* whitespace-only is skipped, and the container-log fallback is used only
\* when no path of the category qualifies.
C13_FirstNonBlankTail ==
    FilterCall
        => IF \E k \in CategoryTextFiles : CategoryTailHasText(k)
           THEN /\ call.out.exc = "" /\ call.out.success
                /\ ~EngineQueried
                /\ \E k \in CategoryTextFiles :
                      /\ CategoryTailHasText(k)
                      /\ \A j \in 1..(k - 1) : ~CategoryTailHasText(j)
                      /\ call.out.content.s = LastLines(CategoryText(k), call.max_lines)
           ELSE EngineQueried

\* C13 happens: both files of the category exist, the first one is read and
\* skipped for its blank tail, and the tail of the second one, shorter than
\* the file, is returned without a query of the engine
C13_Witness ==
    /\ FilterCall
    /\ 1 \in CategoryTextFiles /\ ~CategoryTailHasText(1)
    /\ CategoryTailHasText(2)
    /\ NumLines(CategoryText(2)) > call.max_lines
    /\ call.out.success
    /\ call.out.content.s = LastLines(CategoryText(2), call.max_lines)
    /\ CategoryPaths(call.arg.v)[1] \in FilesRead
    /\ ~EngineQueried

TailCall == call.op = "read_log_file" /\ files[TailPath].kind = "text"

\* C14: a tail read of a log file with max_lines lines requested returns
\* exactly the last max_lines lines of the file when the file has more lines
\* than that, and the full file content, unchanged, when the requested tail
\* is at least the file's line count.
C14_TailOrWholeFile ==
    TailCall
        => LET t == files[TailPath].text
               c == call.out.content
           IN  /\ ~c.none
               /\ IF NumLines(t) > call.max_lines
                  THEN /\ NumLines(c.s) = call.max_lines
                       /\ \E k \in 1..Len(t) :
                             /\ t[k] = NL
                             /\ c.s = SubSeq(t, k + 1, Len(t))
                  ELSE c.s = t

\* C14 happens: the file has more lines than asked for, the last one lacks
\* its newline, and the read returns a proper part of the file
C14_Witness ==
    /\ TailCall
    /\ NumLines(files[TailPath].text) > call.max_lines
    /\ call.max_lines > 1
    /\ files[TailPath].text[Len(files[TailPath].text)] # NL
    /\ ~call.out.content.none
    /\ call.out.content.s # files[TailPath].text
    /\ NumLines(call.out.content.s) = call.max_lines

\* the second of two identical get_filtered_logs calls has returned
SecondCall == call.op = "get_filtered_logs" /\ first.set /\ first.again

C16_AbsentEverywhereIs404 ==
    (/\ ServiceCall /\ ~InvalidName
     /\ EngineSaysNotFound
     /\ \A p \in Paths : ~Exists(files, p))
        => /\ call.out.exc = "" /\ ~call.out.success
           /\ call.out.status_code = 404

\* C16 happens: a container the engine does not know is asked for, no log
\* file exists, the engine was queried and the call has answered
C16_Witness ==
    /\ ServiceCall /\ ~InvalidName
    /\ call.container_name # default_container
    /\ EngineSaysNotFound
    /\ \A p \in Paths : ~Exists(files, p)
    /\ EngineQueried
    /\ ~call.out.success
    /\ call.out.status_code = 404

\* a get_cached_config of thread t has returned a configuration
ConfigHit(t) == thr[t].pc = "returned" /\ thr[t].cache_key # "" /\ ~thr[t].ret.none

\* C17: once .config_updated has been touched, every later
\* get_cached_config, in any process and for any key cached before the
\* touch, returns None rather than the cached configuration.
C17_NoHitAfterTouch ==
    \A t \in Threads : ConfigHit(t) => ~thr[t].ret.touched

\* C17, the lock: lookups, stores and the clearing of the in-memory cache of
\* a process are mutually exclusive
C17_LockExcludes ==
    \A t, u \in Threads :
        (/\ t # u /\ ProcOf(t) = ProcOf(u)
         /\ thr[t].pc \in {"get_cached_config", "set_cached_config", "invalidate_config",
                           "invalidate_token", "invalidate_hash"})
            => thr[u].pc \notin {"get_cached_config", "set_cached_config",
                                 "invalidate_config", "invalidate_token",
                                 "invalidate_hash"}

\* a get_cached_token of thread t has returned a token
TokenHit(t) == thr[t].pc = "returned" /\ thr[t].pair # NoPair /\ ~thr[t].ret.none

\* C18: with set_cached_token, clear_token_cache, invalidate_cache and
\* get_cached_token interleaved by several threads,
\* get_cached_token(encrypted_token, password_hash) only ever returns the
\* decrypted token that was stored for that same pair.
C18_TokenOfSamePair ==
    \A t \in Threads : TokenHit(t) => thr[t].ret.token = DecryptedToken(thr[t].pair)

\* the clock has left the minute 0 it entered last, and the service has been
\* running since it entered it
HourServed == demo.window.live /\ wall.half = RestOfHour

\* C19: while the service is running, each time the wall clock enters
\* minute 0 of an hour the loop performs _reset_to_defaults exactly once
\* for that hour: it never resets twice, and when minute 0 is over it has
\* reset once.
C19_ResetOncePerHour ==
    /\ demo.window.live => demo.window.resets <= 1
    /\ HourServed => demo.window.resets = 1

\* a step in which start, force_reset or save_current_as_new_defaults is
\* called and returns
GatedCall ==
    /\ demo.api = NoApi
    /\ demo'.api.op \in {"start", "force_reset", "save_current_as_new_defaults"}

\* C20: when DDC_MODE is not 'demo', start(), force_reset() and
\* save_current_as_new_defaults() each return False and leave everything
\* unchanged: no thread is started, running stays False, and no config or
\* defaults file is written.
C20_InactiveOutsideDemo ==
    [][(demo.mode # "demo" /\ GatedCall)
          => /\ demo'.api.ret = FALSE
             /\ demo'.running = demo.running /\ ~demo'.running
             /\ demo'.loops = demo.loops
             /\ \A l \in LoopIds : demo'.loops[l].pc = "none"
             /\ demo'.defaults = demo.defaults
             /\ demo'.last_reset_hour = demo.last_reset_hour
             /\ UNCHANGED <<disk, cache>>]_vars

\* outside demo mode, with a configuration that has been edited, start has
\* been called and has returned False
C20_Witness ==
    /\ demo.mode = "production"
    /\ disk.version > 0
    /\ demo.api = [op |-> "start", ret |-> FALSE]

\* an endpoint decorated with demo_restrict has answered
RestrictedCall == web.call.op = "demo_restrict"

\* C21: in demo mode an endpoint wrapped with demo_restrict answers 403
\* with the demo notice and its handler is not invoked; with demo mode off
\* the handler is invoked with the original arguments and its result is
\* returned unchanged.
C21_RestrictedOnlyInDemo ==
    RestrictedCall =>
        IF web.demo_mode_enabled
        THEN /\ ~web.call.out.invoked
             /\ web.call.out.resp.status = 403
             /\ web.call.out.resp.body.error = DEMO_NOTICE_EN
        ELSE /\ web.call.out.invoked
             /\ web.call.out.passed = web.call.req
             /\ web.call.out.resp = web.call.result

\* in demo mode a demo_restrict endpoint has answered a request
C21_Witness ==
    /\ RestrictedCall
    /\ web.demo_mode_enabled
    /\ web.call.req.container_name = "web"
    /\ web.call.result.status = 200

\* a request to a demo_restrict_container endpoint names a protected
\* container in a URL parameter or in a field of its JSON or form data
NamesProtected(req) ==
    \/ req.container_name \in PROTECTED_CONTAINERS
    \/ req.name \in PROTECTED_CONTAINERS
    \/ /\ req.body \in {"json", "form"}
       /\ \/ req.data_container_name \in PROTECTED_CONTAINERS
          \/ req.data_container \in PROTECTED_CONTAINERS

\* C22: in demo mode a handler wrapped with demo_restrict_container is never
\* invoked for a request whose target container, given as URL parameter
\* container_name or name or as request-data field container_name or
\* container, is a protected container; the request is answered 403.
C22_ProtectedNeverControlled ==
    (/\ web.call.op = "demo_restrict_container"
     /\ web.demo_mode_enabled
     /\ NamesProtected(web.call.req))
        => ~web.call.out.invoked /\ web.call.out.resp.status = 403

\* C23: while the service runs with the update channel available, every
\* full clock hour sees exactly 12 sends, and the 12 messages of the hour
\* are pairwise distinct entries of DEMO_UPDATE_MESSAGES.
C23_TwelveDistinctPerHour ==
    (upd.running /\ upd.last_hour.whole)
        => /\ upd.last_hour.sends = MessagesPerHour
           /\ ~upd.last_hour.repeated

\* C24: while the service is running, the time between two consecutive
\* messages it sends is at most 10 minutes, also after the 12 messages of
\* an hour have been sent and across the hour boundary.
C24_AtMostTenMinutesApart == (upd.running /\ upd.sent) => ~upd.late

\* the threads that are executing _run_service
ActiveLoops == {l \in LoopIds : demo.loops[l].pc # "none"}

\* C25: after any sequence of start() and stop() calls, also stop() followed
\* by start() while the previous thread is still in its sleep, there is
\* never more than one thread executing _run_service.
C25_OneLoopAtMost == Cardinality(ActiveLoops) <= 1

\* C26: in demo mode, once register_background_services has started the
\* Demo Reset Service, the service stays running; the end of an application
\* context, that of the registration or of a request, does not stop it.
C26_StaysRunning == (IsDemoMode(demo.mode) /\ app.started) => demo.running

====
